---- MODULE Spec2Model ----
(***************************************************************************)
(* A model of the discovery and diff-driven check-selection engine of      *)
(* @vapi/bulletproof: the diff analyzer (src/diff/analyzer.ts), the        *)
(* coverage-scope matcher (config.ts), the git queries it reads            *)
(* (git/utils.ts), the script discovery (discovery/scripts.ts), the        *)
(* convention-file discovery (discovery/conventions.ts), the loading and   *)
(* merging of the configuration (config.ts), the GuardianRunner's run      *)
(* (guardian.ts) and the section tracking (ui/sections.ts).                *)
(*                                                                         *)
(* Strings of the program (file paths, glob patterns, script names) are    *)
(* sequences of one-character strings, so that prefix, suffix, substring,  *)
(* case folding and regular-expression matching are computed, not assumed. *)
(***************************************************************************)
EXTENDS Integers, Sequences, FiniteSets, TLC

VARIABLES
  \* ---- diff analysis -------------------------------------------------
  gitFiles,      \* the changed files of the repository: a set of indices into FileUniverse
  gitStat,       \* the lines the change inserts and deletes: [ins |-> n, del |-> n]
  gitOk,         \* whether each git query succeeds: [files |-> BOOLEAN, stats |-> BOOLEAN]
  config,        \* the BulletproofConfig passed: [checks |-> ..., scope |-> index into Scopes]
  analysis,      \* the DiffAnalysis returned by the first analyzeDiff call, or NoResult
  reanalysis,    \* the DiffAnalysis returned by a second call with the same arguments, or NoResult
  \* ---- script discovery ----------------------------------------------
  lockfiles,     \* the lockfiles present in the project directory
  manifest,      \* package.json: [state |-> "missing"|"invalid"|"null"|"nonobject"|"noscripts"|"ok", names |-> the keys of its scripts map, as declared]
  discovery,     \* the ScriptDiscoveryResult of the last discoverScripts call, or NoResult
  categorized,   \* the last categorizeScript call: [name |-> index, category |-> ...], or NoResult
  \* ---- convention files: loadFileContent -----------------------------
  loadEntry,     \* what is at the path given to loadFileContent: [kind |-> ..., bytes |-> ...]
  loadMax,       \* the maxSize given to loadFileContent
  loaded,        \* what the last loadFileContent call returned, or NoResult
  \* ---- convention files: deduplicateContent --------------------------
  dedupFiles,    \* the list of ConventionFile given to deduplicateContent
  dedupOrder,    \* the priorityOrder given to deduplicateContent
  dedupOnce,     \* [files |-> deduplicateContent(dedupFiles, dedupOrder)], or NoResult
  dedupTwice,    \* [files |-> deduplicateContent(dedupOnce.files, dedupOrder)], or NoResult
  \* ---- convention files: discoverConventionFiles ---------------------
  project,       \* what each convention location of cwd holds
  finalConfig,   \* [maxFileSize |-> n, maxCombinedSize |-> n]
  location,      \* the index in CONVENTION_LOCATIONS the loop is at; past the end once it is over
  entry,         \* inside the rules directory: the index of the next directory entry, else 0
  totalSize,     \* the running total of the sizes of the accepted files
  discoveredFiles, \* the accepted files (`discovered` in the code), in order of acceptance
  conventions,   \* [files |-> the list discoverConventionFiles returned], or NoResult
  \* ---- coverage patterns: patternToRegex -----------------------------
  coveragePattern, \* the CoveragePattern given to patternToRegex
  testedPath,    \* the file path the resulting RegExp is tested on
  patternMatched, \* [value |-> "true", "false" or "throw"] after patternToRegex(coveragePattern).test(testedPath), or NoResult
  \* ---- configuration: loadConfigFile, loadConfig ----------------------
  configDisk,    \* what cwd holds under each configuration file name and under package.json
  fileConfig,    \* [value |-> what the last loadConfigFile call returned], or NoResult
  loadedConfig,  \* [value |-> what the last loadConfig call returned], or NoResult
  \* ---- configuration: mergeConfig -------------------------------------
  mergePartial,  \* the partial configuration given to mergeConfig
  mergeDefaults, \* the defaults given to mergeConfig
  merged,        \* [value |-> what the last mergeConfig call returned], or NoResult
  \* ---- GuardianRunner.run ---------------------------------------------
  runOptions,    \* this.state.options: [hookMode |-> BOOLEAN, skipPush |-> BOOLEAN]
  runOutcomes,   \* how the agent, the final verification, the commit and the push turn out in this run
  runPc,         \* the statement of run() that executes next
  runLocals,     \* the locals of run(): claudeResult, success, fixesCommitted, pushed
  runEffects,    \* the git steps run() has taken so far, in order: "commit", "push"
  runResult,     \* the GuardianResult returned by run(), or NoResult
  \* ---- ui/sections.ts -------------------------------------------------
  sectionsState, \* the SectionsState: [sections |-> ids, statuses |-> ..., currentIndex |-> n]
  lastCall       \* the last call made on sectionsState: [op |-> ..., id |-> sectionId, returned |-> ...]

diffVars == <<gitFiles, gitStat, gitOk, config, analysis, reanalysis>>
scriptVars == <<lockfiles, manifest, discovery, categorized>>
loadVars == <<loadEntry, loadMax, loaded>>
dedupVars == <<dedupFiles, dedupOrder, dedupOnce, dedupTwice>>
discoverVars == <<project, finalConfig, location, entry, totalSize, discoveredFiles, conventions>>
conventionVars == <<loadVars, dedupVars, discoverVars>>

loadConfigVars == <<configDisk, fileConfig, loadedConfig>>
mergeVars == <<mergePartial, mergeDefaults, merged>>
patternVars == <<coveragePattern, testedPath, patternMatched>>
guardianVars == <<runOptions, runOutcomes, runPc, runLocals, runEffects, runResult>>
sectionVars == <<sectionsState, lastCall>>
runnerVars == <<loadConfigVars, mergeVars, patternVars, guardianVars, sectionVars>>

vars == <<diffVars, scriptVars, conventionVars, runnerVars>>

NoResult == [none |-> TRUE]

\* JavaScript's null, as returned by categorizeFile and categorizeScript.
null == "null"

-----------------------------------------------------------------------------
(* String primitives of the JavaScript runtime, on sequences of characters. *)

\* String.prototype.startsWith
StartsWith(s, p) ==
  Len(s) >= Len(p) /\ SubSeq(s, 1, Len(p)) = p

\* what a regex /p$/ of literal characters tests
EndsWith(s, p) ==
  Len(s) >= Len(p) /\ SubSeq(s, Len(s) - Len(p) + 1, Len(s)) = p

\* what an unanchored regex /p/ of literal characters tests
Contains(s, p) ==
  \E i \in 1..(Len(s) - Len(p) + 1) : SubSeq(s, i, i + Len(p) - 1) = p

\* String.prototype.replace(/from/g, to) for a literal `from`: leftmost,
\* non-overlapping occurrences, the replacement text is not rescanned.
RECURSIVE ReplaceAll(_, _, _)
ReplaceAll(s, from, to) ==
  IF Len(s) = 0 THEN <<>>
  ELSE IF StartsWith(s, from)
       THEN to \o ReplaceAll(SubSeq(s, Len(from) + 1, Len(s)), from, to)
       ELSE <<Head(s)>> \o ReplaceAll(Tail(s), from, to)

-----------------------------------------------------------------------------
(* The regular expressions the program builds at run time (new RegExp(src)). *)
(* A compiled expression is a sequence of atoms; compilation fails, as the   *)
(* engine's SyntaxError does, on a quantifier with nothing to repeat, an     *)
(* unterminated class or a trailing backslash.  The sources compiled here    *)
(* come out of toRegex, which escapes ( ) { } | + so groups, alternation and *)
(* counted repetition never occur unescaped.                                 *)

Atom(k, c, neg, set) == [k |-> k, c |-> c, neg |-> neg, set |-> set, q |-> "one", lazy |-> FALSE]

\* index of the "]" closing the class opened at r[i], 0 when there is none
ClassEnd(r, i) ==
  LET ends == {j \in (i + 1)..Len(r) : r[j] = "]" /\ r[j - 1] # "\\"}
  IN IF ends = {} THEN 0 ELSE CHOOSE j \in ends : \A k \in ends : j <= k

Quantify(atoms, c) ==
  LET n == Len(atoms)
      last == atoms[n]
  IN IF n = 0 \/ last.k \in {"bol", "eol"} \/ last.lazy THEN <<>>
     ELSE IF last.q = "one"
          THEN [atoms EXCEPT ![n].q = IF c = "*" THEN "star" ELSE "opt"]
          ELSE IF c = "?" THEN [atoms EXCEPT ![n].lazy = TRUE] ELSE <<>>

RECURSIVE RegExpParse(_, _, _)
RegExpParse(r, i, atoms) ==
  IF i > Len(r) THEN [ok |-> TRUE, atoms |-> atoms]
  ELSE LET c == r[i] IN
    IF c = "\\" THEN
      IF i = Len(r) THEN [ok |-> FALSE, atoms |-> <<>>]
      ELSE RegExpParse(r, i + 2, Append(atoms, Atom("lit", r[i + 1], FALSE, {})))
    ELSE IF c = "." THEN RegExpParse(r, i + 1, Append(atoms, Atom("dot", "", FALSE, {})))
    ELSE IF c = "^" THEN RegExpParse(r, i + 1, Append(atoms, Atom("bol", "", FALSE, {})))
    ELSE IF c = "$" THEN RegExpParse(r, i + 1, Append(atoms, Atom("eol", "", FALSE, {})))
    ELSE IF c = "[" THEN
      LET e == ClassEnd(r, i)
          neg == i < Len(r) /\ r[i + 1] = "^"
          from == IF neg THEN i + 2 ELSE i + 1
      IN IF e = 0 THEN [ok |-> FALSE, atoms |-> <<>>]
         ELSE RegExpParse(r, e + 1,
                Append(atoms, Atom("class", "", neg, {r[j] : j \in from..(e - 1)} \ {"\\"})))
    ELSE IF c \in {"*", "?"} THEN
      LET q == Quantify(atoms, c)
      IN IF q = <<>> THEN [ok |-> FALSE, atoms |-> <<>>] ELSE RegExpParse(r, i + 1, q)
    ELSE RegExpParse(r, i + 1, Append(atoms, Atom("lit", c, FALSE, {})))

\* new RegExp(src): [ok |-> FALSE] stands for the SyntaxError it throws
RegExpCompile(src) == RegExpParse(src, 1, <<>>)

AtomAccepts(a, ch) ==
  CASE a.k = "lit" -> ch = a.c
    [] a.k = "dot" -> ch # "\n"
    [] a.k = "class" -> (ch \in a.set) # a.neg
    [] OTHER -> FALSE

\* the atoms from position a on match s from position j on
RECURSIVE MatchFrom(_, _, _, _)
MatchFrom(atoms, a, s, j) ==
  IF a > Len(atoms) THEN TRUE
  ELSE LET at == atoms[a]
           step == j <= Len(s) /\ AtomAccepts(at, s[j])
       IN CASE at.k = "bol" -> j = 1 /\ MatchFrom(atoms, a + 1, s, j)
            [] at.k = "eol" -> j = Len(s) + 1 /\ MatchFrom(atoms, a + 1, s, j)
            [] at.q = "one" -> step /\ MatchFrom(atoms, a + 1, s, j + 1)
            [] at.q = "opt" -> (step /\ MatchFrom(atoms, a + 1, s, j + 1))
                               \/ MatchFrom(atoms, a + 1, s, j)
            [] OTHER -> MatchFrom(atoms, a + 1, s, j)
                        \/ (step /\ MatchFrom(atoms, a, s, j + 1))

\* RegExp.prototype.test: a match may start anywhere unless the source anchors it
RegExpTest(atoms, s) == \E j \in 1..(Len(s) + 1) : MatchFrom(atoms, 1, s, j)

-----------------------------------------------------------------------------
(* Coverage scope: isInCoverageScope and the glob translation inside it.    *)

RegexMeta == {".", "+", "^", "$", "{", "}", "(", ")", "|", "[", "]", "\\"}

GLOBSTAR == <<"<", "<", "<", "G", "L", "O", "B", "S", "T", "A", "R", ">", ">", ">">>

\* pattern.replace(/[.+^${}()|[\]\\]/g, '\\$&')
RECURSIVE EscapeMeta(_)
EscapeMeta(p) ==
  IF Len(p) = 0 THEN <<>>
  ELSE (IF Head(p) \in RegexMeta THEN <<"\\", Head(p)>> ELSE <<Head(p)>>) \o EscapeMeta(Tail(p))

\* the source of the RegExp that toRegex builds for a glob pattern
toRegex(pattern) ==
  LET e1 == EscapeMeta(pattern)
      e2 == ReplaceAll(e1, <<"*", "*">>, GLOBSTAR)
      e3 == ReplaceAll(e2, <<"*">>, <<"[", "^", "/", "]", "*">>)
      e4 == ReplaceAll(e3, GLOBSTAR, <<".", "*">>)
  IN <<"^">> \o e4 \o <<"$">>

REGEX_TAG == <<"r", "e", "g", "e", "x", ":">>

\* the source of the RegExp that patternToRegex builds: a pattern tagged
\* "regex:" is used as written, any other is translated as a glob
patternToRegex(pattern) ==
  IF StartsWith(pattern, REGEX_TAG)
  THEN SubSeq(pattern, Len(REGEX_TAG) + 1, Len(pattern))
  ELSE toRegex(pattern)

\* patterns.some((pattern) => patternToRegex(pattern).test(file)), from index i on:
\* "true", "false", or "throw" when a pattern reached before any match does
\* not compile
RECURSIVE SomePatternMatches(_, _, _)
SomePatternMatches(patterns, i, file) ==
  IF i > Len(patterns) THEN "false"
  ELSE LET re == RegExpCompile(patternToRegex(patterns[i]))
       IN IF ~re.ok THEN "throw"
          ELSE IF RegExpTest(re.atoms, file) THEN "true"
          ELSE SomePatternMatches(patterns, i + 1, file)

isInCoverageScope(file, scope) ==
  LET matchesInclude == SomePatternMatches(scope.include, 1, file)
      matchesExclude == SomePatternMatches(scope.exclude, 1, file)
  IN IF matchesInclude # "true" THEN matchesInclude
     ELSE IF matchesExclude = "throw" THEN "throw"
     ELSE IF matchesExclude = "true" THEN "false" ELSE "true"

-----------------------------------------------------------------------------
(* Bounds of the model. *)

\* at most this many of the base files change in one diff
MaxBaseFiles == 2

\* at most this many files of the covered family src/m/<letter>.ts change
MaxCovered == 11

-----------------------------------------------------------------------------
(* The files a diff may touch, in the order git lists them (by path).  The  *)
(* base files give one representative per way a path meets FILE_PATTERNS    *)
(* and the coverage scope; the family src/m/a.ts, src/m/b.ts, ... gives as  *)
(* many covered source files as the size thresholds need.                   *)

BaseFilesBefore == <<
  <<"M", "a", "k", "e", "f", "i", "l", "e">>,  \* Makefile
  <<"R", "E", "A", "D", "M", "E", ".", "m", "d">>,  \* README.md
  <<"d", "o", "c", "s", "/", "a", "p", "i", ".", "t", "s">>,  \* docs/api.ts
  <<"l", "i", "b", "/", "c", ".", "j", "s">>,  \* lib/c.js
  <<"s", "c", "r", "i", "p", "t", "s", "/", "r", "u", "n", ".", "t", "e", "s", "t", ".", "t", "s">>,  \* scripts/run.test.ts
  <<"s", "r", "c", "/", "a", ".", "t", "e", "s", "t", ".", "t", "s">>  \* src/a.test.ts
>>

BaseFilesAfter == <<
  <<"s", "r", "c", "/", "m", "/", "t", "y", "p", "e", "s", "/", "x", ".", "t", "s">>,  \* src/m/types/x.ts
  <<"s", "r", "c", "/", "t", "y", "p", "e", "s", "/", "t", ".", "t", "s">>,  \* src/types/t.ts
  <<"s", "r", "c", "/", "z", ".", "t", "s">>,  \* src/z.ts
  <<"t", "e", "s", "t", "/", "b", ".", "s", "p", "e", "c", ".", "j", "s">>,  \* test/b.spec.js
  <<"v", "i", "t", "e", ".", "c", "o", "n", "f", "i", "g", ".", "t", "s">>  \* vite.config.ts
>>

Letters == <<"a", "b", "c", "d", "e", "f", "g", "h", "i", "j", "k", "l", "m", "n", "o", "p">>

FamilyFile(k) == <<"s", "r", "c", "/", "m", "/">> \o <<Letters[k]>> \o <<".", "t", "s">>

FileUniverse ==
  BaseFilesBefore \o [k \in 1..MaxCovered |-> FamilyFile(k)] \o BaseFilesAfter

FileIds == 1..Len(FileUniverse)
FamilyIds == (Len(BaseFilesBefore) + 1)..(Len(BaseFilesBefore) + MaxCovered)
BaseIds == FileIds \ FamilyIds

\* a set of file ids as the list git prints: ascending by path
RECURSIVE SortedSeq(_)
SortedSeq(ids) ==
  IF ids = {} THEN <<>>
  ELSE LET m == CHOOSE i \in ids : \A j \in ids : i <= j
       IN <<m>> \o SortedSeq(ids \ {m})

-----------------------------------------------------------------------------
(* File categorization (analyzer.ts). *)

\* FILE_PATTERNS.docs: /\.(md|txt)$/, /^docs\//
FILE_PATTERNS_docs(file) ==
  \/ EndsWith(file, <<".", "m", "d">>) \/ EndsWith(file, <<".", "t", "x", "t">>)
  \/ StartsWith(file, <<"d", "o", "c", "s", "/">>)

\* FILE_PATTERNS.config: /\.config\.(ts|js|mjs|mts)$/, /\.(json|yml|yaml)$/,
\* /^\.cursorrules$/, /^\.gitignore$/, /^\.eslintrc\.json$/
FILE_PATTERNS_config(file) ==
  \/ \E ext \in {<<".", "c", "o", "n", "f", "i", "g", ".", "t", "s">>, <<".", "c", "o", "n", "f", "i", "g", ".", "j", "s">>, <<".", "c", "o", "n", "f", "i", "g", ".", "m", "j", "s">>, <<".", "c", "o", "n", "f", "i", "g", ".", "m", "t", "s">>} :
       EndsWith(file, ext)
  \/ \E ext \in {<<".", "j", "s", "o", "n">>, <<".", "y", "m", "l">>, <<".", "y", "a", "m", "l">>} :
       EndsWith(file, ext)
  \/ file \in {<<".", "c", "u", "r", "s", "o", "r", "r", "u", "l", "e", "s">>, <<".", "g", "i", "t", "i", "g", "n", "o", "r", "e">>, <<".", "e", "s", "l", "i", "n", "t", "r", "c", ".", "j", "s", "o", "n">>}

\* FILE_PATTERNS.scripts: /^scripts\//, /^slack-listener\//, /^mcp-server\//, /^desktop\//, /\.sh$/
FILE_PATTERNS_scripts(file) ==
  \/ \E dir \in {<<"s", "c", "r", "i", "p", "t", "s", "/">>, <<"s", "l", "a", "c", "k", "-", "l", "i", "s", "t", "e", "n", "e", "r", "/">>, <<"m", "c", "p", "-", "s", "e", "r", "v", "e", "r", "/">>, <<"d", "e", "s", "k", "t", "o", "p", "/">>} :
       StartsWith(file, dir)
  \/ EndsWith(file, <<".", "s", "h">>)

\* FILE_PATTERNS.tests: /\.test\./, /\.spec\./, /^src\/test\//
FILE_PATTERNS_tests(file) ==
  \/ Contains(file, <<".", "t", "e", "s", "t", ".">>) \/ Contains(file, <<".", "s", "p", "e", "c", ".">>)
  \/ StartsWith(file, <<"s", "r", "c", "/", "t", "e", "s", "t", "/">>)

\* FILE_PATTERNS.types: /\.d\.ts$/, /^src\/types\//
FILE_PATTERNS_types(file) ==
  \/ EndsWith(file, <<".", "d", ".", "t", "s">>)
  \/ StartsWith(file, <<"s", "r", "c", "/", "t", "y", "p", "e", "s", "/">>)

\* FILE_PATTERNS.src: /\.(ts|tsx|js|jsx)$/
FILE_PATTERNS_src(file) ==
  \E ext \in {<<".", "t", "s">>, <<".", "t", "s", "x">>, <<".", "j", "s">>, <<".", "j", "s", "x">>} : EndsWith(file, ext)

\* the six buckets in the order categorizeFile tests them
Buckets == <<"docs", "config", "scripts", "tests", "types", "src">>

\* does the file match the patterns of bucket b
MatchesBucket(file, b) ==
  CASE b = "docs" -> FILE_PATTERNS_docs(file)
    [] b = "config" -> FILE_PATTERNS_config(file)
    [] b = "scripts" -> FILE_PATTERNS_scripts(file)
    [] b = "tests" -> FILE_PATTERNS_tests(file)
    [] b = "types" -> FILE_PATTERNS_types(file)
    [] b = "src" -> FILE_PATTERNS_src(file)

\* categorizeFile with the tests patterns tried before the scripts patterns
categorizeFile_TestsFirst(file, coverageScope) ==
  IF FILE_PATTERNS_docs(file) THEN [category |-> "docs", inCoverage |-> "false"]
  ELSE IF FILE_PATTERNS_config(file) THEN [category |-> "config", inCoverage |-> "false"]
  ELSE IF FILE_PATTERNS_tests(file) THEN [category |-> "tests", inCoverage |-> "false"]
  ELSE IF FILE_PATTERNS_scripts(file) THEN [category |-> "scripts", inCoverage |-> "false"]
  ELSE IF FILE_PATTERNS_types(file) THEN [category |-> "types", inCoverage |-> "false"]
  ELSE IF FILE_PATTERNS_src(file)
       THEN [category |-> "src", inCoverage |-> isInCoverageScope(file, coverageScope)]
  ELSE [category |-> null, inCoverage |-> "false"]

\* categorizeFile: [category, inCoverage]; inCoverage is "throw" when
\* isInCoverageScope raises
categorizeFile(file, coverageScope) ==
  IF FILE_PATTERNS_docs(file) THEN [category |-> "docs", inCoverage |-> "false"]
  ELSE IF FILE_PATTERNS_config(file) THEN [category |-> "config", inCoverage |-> "false"]
  ELSE IF FILE_PATTERNS_scripts(file) THEN [category |-> "scripts", inCoverage |-> "false"]
  ELSE IF FILE_PATTERNS_tests(file) THEN [category |-> "tests", inCoverage |-> "false"]
  ELSE IF FILE_PATTERNS_types(file) THEN [category |-> "types", inCoverage |-> "false"]
  ELSE IF FILE_PATTERNS_src(file)
       THEN [category |-> "src", inCoverage |-> isInCoverageScope(file, coverageScope)]
  ELSE [category |-> null, inCoverage |-> "false"]

-----------------------------------------------------------------------------
(* Configurations. *)

CheckNames == {"rules", "lint", "format", "typecheck", "build", "tests", "coverage"}

\* DEFAULT_CONFIG.checks
DefaultChecks == [c \in CheckNames |-> TRUE]

\* DEFAULT_CONFIG.coverageScope
DefaultScope == [
  include |-> <<<<"s", "r", "c", "/", "*", "*", "/", "*", ".", "t", "s">>,
               <<"s", "r", "c", "/", "*", "*", "/", "*", ".", "t", "s", "x">>>>,
  exclude |-> <<<<"s", "r", "c", "/", "t", "e", "s", "t", "/", "*", "*">>,
               <<"*", "*", "/", "*", ".", "t", "e", "s", "t", ".", "t", "s">>,
               <<"*", "*", "/", "*", ".", "t", "e", "s", "t", ".", "t", "s", "x">>,
               <<"*", "*", "/", "*", ".", "s", "p", "e", "c", ".", "t", "s">>,
               <<"*", "*", "/", "*", ".", "s", "p", "e", "c", ".", "t", "s", "x">>,
               <<"*", "*", "/", "t", "y", "p", "e", "s", "/", "*", "*">>,
               <<"*", "*", "/", "*", ".", "d", ".", "t", "s">>>>]

\* a project that covers lib/ and the top level of src/
LibScope == [
  include |-> <<<<"l", "i", "b", "/", "*", "*">>, <<"s", "r", "c", "/", "*", ".", "t", "s">>>>,
  exclude |-> <<<<"*", "*", "/", "*", ".", "t", "e", "s", "t", ".", "t", "s">>>>]

\* a project whose second include pattern uses "?" as a one-character
\* wildcard: the translation leaves "?" alone and "^?rc/..." does not compile
QuestionScope == [
  include |-> <<<<"s", "r", "c", "/", "*", "*", "/", "*", ".", "t", "s">>, <<"?", "r", "c", "/", "*", ".", "t", "s">>>>,
  exclude |-> <<>>]

Scopes == <<DefaultScope, LibScope, QuestionScope>>

\* the checks a configuration file may leave after mergeConfig: the defaults,
\* or the defaults with some checks switched off
ConfiguredChecks == {
  DefaultChecks,
  [DefaultChecks EXCEPT !["lint"] = FALSE, !["tests"] = FALSE]}

\* categorizeFile of every file of the universe under every scope, computed once
CategoryTable ==
  [s \in 1..Len(Scopes) |-> [i \in FileIds |-> categorizeFile(FileUniverse[i], Scopes[s])]]

-----------------------------------------------------------------------------
(* The two read-only git queries (git/utils.ts). *)

\* what `git diff --shortstat` prints for a change of ins inserted and del
\* deleted lines in nfiles files: nothing for an empty diff; otherwise git
\* leaves out a side that is 0 unless both are 0
GitShortStat(nfiles, ins, del) ==
  IF nfiles = 0 THEN [hasIns |-> FALSE, hasDel |-> FALSE, ins |-> 0, del |-> 0]
  ELSE [hasIns |-> ins > 0 \/ del = 0, hasDel |-> del > 0 \/ ins = 0, ins |-> ins, del |-> del]

\* getChangedFiles: the list git prints, or [] when the command fails
getChangedFiles(ok, files) == IF ok THEN SortedSeq(files) ELSE <<>>

\* getDiffStats: output.match(/(\d+) insertion.*?(\d+) deletion/) needs both
\* sides in the summary; no match and a failed command both give 0 / 0
getDiffStats(ok, output) ==
  IF ok /\ output.hasIns /\ output.hasDel
  THEN [additions |-> output.ins, deletions |-> output.del]
  ELSE [additions |-> 0, deletions |-> 0]

-----------------------------------------------------------------------------
(* analyzeDiff (analyzer.ts). *)

\* a reason string: its fixed text, the file count and the line count it embeds
\* (-1 for a number the text does not have); `plural` is the "s" after "file"
Reason(text, count, lines) ==
  [text |-> text, count |-> count, plural |-> count > 1, lines |-> lines]

\* index of the first file for which categorizeFile raises, 0 when none does
ThrowIndex(files, scope) ==
  LET bad == {i \in 1..Len(files) : CategoryTable[scope][files[i]].inCoverage = "throw"}
  IN IF bad = {} THEN 0 ELSE CHOOSE i \in bad : \A j \in bad : i <= j

\* the loop with a test file pushed to the src bucket as well
Categorize_TestsAlsoSrc(files, scope) ==
  LET cat(f) == CategoryTable[scope][f]
  IN [docs |-> SelectSeq(files, LAMBDA f : cat(f).category = "docs"),
      config |-> SelectSeq(files, LAMBDA f : cat(f).category = "config"),
      scripts |-> SelectSeq(files, LAMBDA f : cat(f).category = "scripts"),
      tests |-> SelectSeq(files, LAMBDA f : cat(f).category = "tests"),
      types |-> SelectSeq(files, LAMBDA f : cat(f).category = "types"),
      src |-> SelectSeq(files, LAMBDA f : cat(f).category \in {"src", "tests"}),
      coveredSrc |-> SelectSeq(files, LAMBDA f : cat(f).category = "src" /\ cat(f).inCoverage = "true")]

\* the loop `for (const file of result.files)` over the given files
Categorize(files, scope) ==
  LET cat(f) == CategoryTable[scope][f]
  IN [docs |-> SelectSeq(files, LAMBDA f : cat(f).category = "docs"),
      config |-> SelectSeq(files, LAMBDA f : cat(f).category = "config"),
      scripts |-> SelectSeq(files, LAMBDA f : cat(f).category = "scripts"),
      tests |-> SelectSeq(files, LAMBDA f : cat(f).category = "tests"),
      types |-> SelectSeq(files, LAMBDA f : cat(f).category = "types"),
      src |-> SelectSeq(files, LAMBDA f : cat(f).category = "src"),
      coveredSrc |-> SelectSeq(files, LAMBDA f : cat(f).category = "src" /\ cat(f).inCoverage = "true")]

\* result.files.length === result.categories[bucket].length && result.files.length > 0
AllIn(result, bucket) ==
  Len(result.files) = Len(result.categories[bucket]) /\ Len(result.files) > 0

\* the docs-only branch leaving the type check on
DocsOnly_Typecheck(result) ==
  [result EXCEPT
     !.checks = [rules |-> TRUE, typecheck |-> TRUE, tests |-> FALSE, coverage |-> FALSE],
     !.sharesConfigChecks = FALSE,
     !.reason = Reason("Docs only", Len(result.files), -1)]

\* the docs-only branch, lines 183-195
DocsOnly(result) ==
  [result EXCEPT
     !.checks = [rules |-> TRUE, typecheck |-> FALSE, tests |-> FALSE, coverage |-> FALSE],
     !.sharesConfigChecks = FALSE,
     !.reason = Reason("Docs only", Len(result.files), -1)]

\* the config-only branch, lines 198-210
ConfigOnly(result) ==
  [result EXCEPT
     !.checks = [rules |-> TRUE, typecheck |-> TRUE, tests |-> FALSE, coverage |-> FALSE],
     !.sharesConfigChecks = FALSE,
     !.reason = Reason("Config only", Len(result.files), -1)]

\* the scripts-only branch, lines 213-225
ScriptsOnly(result) ==
  [result EXCEPT
     !.checks = [rules |-> TRUE, typecheck |-> TRUE, tests |-> TRUE, coverage |-> FALSE],
     !.sharesConfigChecks = FALSE,
     !.reason = Reason("Scripts only", Len(result.files), -1)]

\* the tests-only branch keeping the related files computed earlier
TestsOnly_KeepRelated(result) ==
  [result EXCEPT
     !.checks = [rules |-> TRUE, typecheck |-> TRUE, tests |-> TRUE, coverage |-> FALSE],
     !.sharesConfigChecks = FALSE,
     !.reason = Reason("Tests only", Len(result.categories.tests), -1)]

\* the tests-only branch, lines 228-239
TestsOnly(result) ==
  [result EXCEPT
     !.checks = [rules |-> TRUE, typecheck |-> TRUE, tests |-> TRUE, coverage |-> FALSE],
     !.sharesConfigChecks = FALSE,
     !.useRelatedTests = TRUE,
     !.relatedFiles = result.categories.tests,
     !.reason = Reason("Tests only", Len(result.categories.tests), -1)]

\* the no-covered-files branch leaving the configured coverage check
NoCovered_KeepCoverage(result) ==
  LET srcFiles == Len(result.categories.src)
  IN [result EXCEPT
        !.checks = [@ EXCEPT !["rules"] = TRUE, !["typecheck"] = TRUE, !["tests"] = TRUE],
        !.reason = IF srcFiles > 0
                   THEN Reason("not in coverage scope", srcFiles, -1)
                   ELSE Reason("No covered code changed", -1, result.additions + result.deletions)]

\* the no-covered-files branch, lines 242-255
NoCovered(result) ==
  LET srcFiles == Len(result.categories.src)
  IN [result EXCEPT
        !.checks = [rules |-> TRUE, typecheck |-> TRUE, tests |-> TRUE, coverage |-> FALSE],
        !.sharesConfigChecks = FALSE,
        !.reason = IF srcFiles > 0
                   THEN Reason("not in coverage scope", srcFiles, -1)
                   ELSE Reason("No covered code changed", -1, result.additions + result.deletions)]

\* the small-diff test with the line threshold included
IsSmallDiff_Inclusive(totalLines, coveredFiles) == totalLines <= 200 /\ coveredFiles <= 3

\* totalLines < 200 && coveredFiles <= 3
IsSmallDiff(totalLines, coveredFiles) == totalLines < 200 /\ coveredFiles <= 3

\* the medium-diff test with the file threshold one too high
IsMediumDiff_Eleven(totalLines, coveredFiles) == totalLines < 500 /\ coveredFiles <= 11

\* totalLines < 500 && coveredFiles <= 10
IsMediumDiff(totalLines, coveredFiles) == totalLines < 500 /\ coveredFiles <= 10

\* the small-diff branch, lines 258-263
SmallDiff(result) ==
  [result EXCEPT
     !.checks = [@ EXCEPT !["coverage"] = FALSE],
     !.useRelatedTests = TRUE,
     !.reason = Reason("Small diff", Len(result.categories.coveredSrc), -1)]

\* the medium-diff branch, lines 266-270
MediumDiff(result) ==
  [result EXCEPT
     !.useRelatedTests = TRUE,
     !.reason = Reason("Medium diff", Len(result.categories.coveredSrc), -1)]

\* the large-diff branch, lines 273-276
LargeDiff(result) ==
  [result EXCEPT
     !.useRelatedTests = FALSE,
     !.relatedFiles = <<>>,
     !.reason = Reason("Large diff", Len(result.categories.coveredSrc),
                       result.additions + result.deletions)]

\* the decision tree, lines 180-276
Decide(result) ==
  LET totalLines == result.additions + result.deletions
      coveredFiles == Len(result.categories.coveredSrc)
  IN IF AllIn(result, "docs") THEN DocsOnly(result)
     ELSE IF AllIn(result, "config") THEN ConfigOnly(result)
     ELSE IF AllIn(result, "scripts") THEN ScriptsOnly(result)
     ELSE IF AllIn(result, "tests") THEN TestsOnly(result)
     ELSE IF coveredFiles = 0 THEN NoCovered(result)
     ELSE IF IsSmallDiff(totalLines, coveredFiles) THEN SmallDiff(result)
     ELSE IF IsMediumDiff(totalLines, coveredFiles) THEN MediumDiff(result)
     ELSE LargeDiff(result)

\* the catch block, lines 277-281
CouldNotAnalyze(result) ==
  [result EXCEPT !.reason = Reason("Full checks (could not analyze diff)", -1, -1)]

\* the result object holding config.checks itself instead of a copy of it
InitialResult_ShareChecks(cfg, files, stats) ==
  [files |-> files, additions |-> stats.additions, deletions |-> stats.deletions,
   categories |-> [docs |-> <<>>, config |-> <<>>, scripts |-> <<>>, tests |-> <<>>,
                   types |-> <<>>, src |-> <<>>, coveredSrc |-> <<>>],
   checks |-> cfg.checks, sharesConfigChecks |-> TRUE,
   useRelatedTests |-> FALSE, relatedFiles |-> <<>>, reason |-> Reason("", -1, -1)]

\* the result object as constructed, lines 116-133, with the outcome of the
\* two queries stored in it, lines 137-142.  `{ ...config.checks }` is a new
\* object with the keys of config.checks: sharesConfigChecks records whether
\* result.checks is the very object config.checks, so that a later write
\* through result.checks would show in the configuration
InitialResult(cfg, files, stats) ==
  [files |-> files, additions |-> stats.additions, deletions |-> stats.deletions,
   categories |-> [docs |-> <<>>, config |-> <<>>, scripts |-> <<>>, tests |-> <<>>,
                   types |-> <<>>, src |-> <<>>, coveredSrc |-> <<>>],
   checks |-> cfg.checks, sharesConfigChecks |-> FALSE,
   useRelatedTests |-> FALSE, relatedFiles |-> <<>>, reason |-> Reason("", -1, -1)]

\* the files the loop handles before categorizeFile raises at index thrown
Handled(files, thrown) == IF thrown = 0 THEN files ELSE SubSeq(files, 1, thrown - 1)

\* the categories as the loop leaves them, by its end or by the exception
CategorizeFiles(result, scope, thrown) ==
  [result EXCEPT !.categories = Categorize(Handled(result.files, thrown), scope)]

\* [...categories.src, ...categories.tests].filter((f) => f.startsWith('src/'))
RelatedCandidates(categories) ==
  SelectSeq(categories.src \o categories.tests,
            LAMBDA f : StartsWith(FileUniverse[f], <<"s", "r", "c", "/">>))

ShouldUseRelated(candidates, totalLines) ==
  Len(candidates) > 0 /\ Len(candidates) <= 10 /\ totalLines < 500

\* lines 160-178
SelectRelated(result, candidates) ==
  IF ShouldUseRelated(candidates, result.additions + result.deletions)
  THEN [result EXCEPT !.useRelatedTests = TRUE, !.relatedFiles = candidates]
  ELSE result

\* the rest of the try block once the loop is over, or the catch block when
\* the loop raised
AfterLoop(result, thrown) ==
  IF thrown # 0 THEN CouldNotAnalyze(result)
  ELSE Decide(SelectRelated(result, RelatedCandidates(result.categories)))

\* the try block on the result holding the queries' outcome
TryBlock(result, scope, thrown) == AfterLoop(CategorizeFiles(result, scope, thrown), thrown)

\* analyzeDiff(config, cwd), the repository at cwd being `repo`
analyzeDiff(cfg, repo) ==
  TryBlock(
    InitialResult(cfg,
      getChangedFiles(repo.ok.files, repo.files),
      getDiffStats(repo.ok.stats,
                   GitShortStat(Cardinality(repo.files), repo.stat.ins, repo.stat.del))),
    cfg.scope,
    ThrowIndex(getChangedFiles(repo.ok.files, repo.files), cfg.scope))

-----------------------------------------------------------------------------
(* The diff analysis as a state machine: a repository state and a          *)
(* configuration, then one call of analyzeDiff.                             *)

\* inserted / deleted line counts around the 200- and 500-line thresholds
LineCases == {
  [ins |-> 0, del |-> 0], [ins |-> 2, del |-> 1], [ins |-> 120, del |-> 0],
  [ins |-> 100, del |-> 99], [ins |-> 100, del |-> 100],
  [ins |-> 400, del |-> 99], [ins |-> 250, del |-> 250]}

\* the first k files of the covered family
Family(k) == {Len(BaseFilesBefore) + j : j \in 1..k}

ChangeSets ==
  {b \cup Family(k) : b \in {x \in SUBSET BaseIds : Cardinality(x) <= MaxBaseFiles},
                      k \in 0..MaxCovered}

Repo == [files |-> gitFiles, stat |-> gitStat, ok |-> gitOk]

\* null, where a record may stand instead (a loaded file, a script slot)
NoFile == [null |-> TRUE]

LoadIdle ==
  /\ loadEntry = [kind |-> "missing", bytes |-> <<>>]
  /\ loadMax = 0
  /\ loaded = NoResult

DedupIdle ==
  /\ dedupFiles = <<>>
  /\ dedupOrder = <<>>
  /\ dedupOnce = NoResult
  /\ dedupTwice = NoResult

DiscoverIdle ==
  /\ project = [files |-> <<>>, rules |-> <<>>]
  /\ finalConfig = [maxFileSize |-> 0, maxCombinedSize |-> 0]
  /\ location = 1
  /\ entry = 0
  /\ totalSize = 0
  /\ discoveredFiles = <<>>
  /\ conventions = NoResult

ConventionsIdle == LoadIdle /\ DedupIdle /\ DiscoverIdle

\* JavaScript's undefined and null, where a value of any type may stand
undefined == [undefined |-> TRUE]
JsNull == [null |-> TRUE]

LoadConfigIdle ==
  /\ configDisk = <<>>
  /\ fileConfig = NoResult
  /\ loadedConfig = NoResult

MergeIdle ==
  /\ mergePartial = JsNull
  /\ mergeDefaults = JsNull
  /\ merged = NoResult

PatternIdle ==
  /\ coveragePattern = <<>>
  /\ testedPath = <<>>
  /\ patternMatched = NoResult

GuardianIdle ==
  /\ runOptions = [hookMode |-> FALSE, skipPush |-> FALSE]
  /\ runOutcomes = [agent |-> "passed", verify |-> TRUE, commit |-> "clean", push |-> TRUE]
  /\ runPc = "idle"
  /\ runLocals = [claudeResult |-> NoResult, success |-> FALSE,
                  fixesCommitted |-> FALSE, pushed |-> FALSE]
  /\ runEffects = <<>>
  /\ runResult = NoResult

SectionsIdle ==
  /\ sectionsState = [sections |-> <<>>, statuses |-> <<>>, currentIndex |-> -1]
  /\ lastCall = [op |-> "none", id |-> "", returned |-> FALSE]

RunnerIdle == LoadConfigIdle /\ MergeIdle /\ PatternIdle /\ GuardianIdle /\ SectionsIdle

ScriptsIdle ==
  /\ lockfiles = {}
  /\ manifest = [state |-> "missing", names |-> <<>>]
  /\ discovery = NoResult
  /\ categorized = NoResult

DiffInit ==
  /\ gitFiles \in ChangeSets
  /\ gitStat \in LineCases
  /\ gitOk \in [files : BOOLEAN, stats : BOOLEAN]
  /\ config \in [checks : ConfiguredChecks, scope : 1..Len(Scopes)]
  /\ analysis = NoResult
  /\ reanalysis = NoResult
  /\ ScriptsIdle
  /\ ConventionsIdle
  /\ RunnerIdle

\* the configuration object once analyzeDiff has returned `result`: the writes
\* made through result.checks are writes to config.checks when the two are
\* one object
ConfigAfter(cfg, result) ==
  IF result.sharesConfigChecks THEN [cfg EXCEPT !.checks = result.checks] ELSE cfg

AnalyzeDiff ==
  /\ analysis = NoResult
  /\ analysis' = analyzeDiff(config, Repo)
  /\ config' = ConfigAfter(config, analysis')
  /\ UNCHANGED <<gitFiles, gitStat, gitOk, reanalysis, scriptVars, conventionVars, runnerVars>>

\* a second call with the same configuration object and the same repository
AnalyzeDiffAgain ==
  /\ analysis # NoResult
  /\ reanalysis = NoResult
  /\ reanalysis' = analyzeDiff(config, Repo)
  /\ config' = ConfigAfter(config, reanalysis')
  /\ UNCHANGED <<gitFiles, gitStat, gitOk, analysis, scriptVars, conventionVars, runnerVars>>

DiffNext == AnalyzeDiff

DiffTwiceNext == AnalyzeDiff \/ AnalyzeDiffAgain

SpecDiff == DiffInit /\ [][DiffNext]_vars

SpecDiffTwice == DiffInit /\ [][DiffTwiceNext]_vars

-----------------------------------------------------------------------------
(* Script discovery (discovery/scripts.ts). *)

\* at most this many entries in the scripts map of a manifest
MaxScripts == 2

\* the script names a manifest may declare
ScriptUniverse == <<
  <<"l", "i", "n", "t">>,  \* lint
  <<"l", "i", "n", "t", ":", "f", "i", "x">>,  \* lint:fix
  <<"l", "i", "n", "t", ":", "c", "i">>,  \* lint:ci
  <<"l", "i", "n", "t", ":", "s", "r", "c">>,  \* lint:src
  <<"E", "S", "L", "i", "n", "t">>,  \* ESLint
  <<"b", "u", "i", "l", "d">>,  \* build
  <<"b", "u", "i", "l", "d", ":", "w", "a", "t", "c", "h">>,  \* build:watch
  <<"b", "u", "i", "l", "d", ":", "p", "r", "o", "d">>,  \* build:prod
  <<"b", "u", "i", "l", "d", ":", "s", "e", "r", "v", "e", "r">>,  \* build:server
  <<"t", "y", "p", "e", "c", "h", "e", "c", "k">>,  \* typecheck
  <<"t", "s", "c">>,  \* tsc
  <<"f", "o", "r", "m", "a", "t", ":", "c", "h", "e", "c", "k">>,  \* format:check
  <<"f", "m", "t">>,  \* fmt
  <<"t", "e", "s", "t">>,  \* test
  <<"p", "r", "e", "p", "a", "r", "e">>,  \* prepare
  <<"l", "i", "n", "t", ":", "F", "i", "x">>,  \* lint:Fix
  <<"c", "o", "m", "p", "i", "l", "e">>  \* compile
>>

ScriptIds == 1..Len(ScriptUniverse)

\* the characters of script names in UTF-16 code unit order
CharOrder == <<"-", ":", "A", "B", "C", "D", "E", "F", "G", "H", "I", "J", "K", "L", "M", "N", "O", "P", "Q", "R", "S", "T", "U", "V", "W", "X", "Y", "Z", "a", "b", "c", "d", "e", "f", "g", "h", "i", "j", "k", "l", "m", "n", "o", "p", "q", "r", "s", "t", "u", "v", "w", "x", "y", "z">>

CharCode(c) == CHOOSE i \in 1..Len(CharOrder) : CharOrder[i] = c

UpperCase == <<"A", "B", "C", "D", "E", "F", "G", "H", "I", "J", "K", "L", "M", "N", "O", "P", "Q", "R", "S", "T", "U", "V", "W", "X", "Y", "Z">>
LowerCase == <<"a", "b", "c", "d", "e", "f", "g", "h", "i", "j", "k", "l", "m", "n", "o", "p", "q", "r", "s", "t", "u", "v", "w", "x", "y", "z">>

\* String.prototype.toLowerCase
toLowerCase(s) ==
  [i \in 1..Len(s) |->
     IF \E k \in 1..Len(UpperCase) : UpperCase[k] = s[i]
     THEN LowerCase[CHOOSE k \in 1..Len(UpperCase) : UpperCase[k] = s[i]]
     ELSE s[i]]

\* CHECK_EXECUTION_ORDER
CHECK_EXECUTION_ORDER == <<"lint", "format", "typecheck", "build">>

CheckCategories == {"lint", "format", "typecheck", "build"}

\* SCRIPT_PATTERNS
SCRIPT_PATTERNS == [
  lint |-> [exact |-> {<<"l", "i", "n", "t">>, <<"e", "s", "l", "i", "n", "t">>},
            prefix |-> <<<<"l", "i", "n", "t", ":">>>>],
  typecheck |-> [exact |-> {<<"t", "y", "p", "e", "c", "h", "e", "c", "k">>, <<"t", "y", "p", "e", "-", "c", "h", "e", "c", "k">>, <<"t", "s", "c">>, <<"t", "y", "p", "e", "s">>},
                 prefix |-> <<<<"t", "y", "p", "e", "c", "h", "e", "c", "k", ":">>, <<"t", "y", "p", "e", "-", "c", "h", "e", "c", "k", ":">>>>],
  build |-> [exact |-> {<<"b", "u", "i", "l", "d">>, <<"c", "o", "m", "p", "i", "l", "e">>},
             prefix |-> <<<<"b", "u", "i", "l", "d", ":">>>>],
  format |-> [exact |-> {<<"f", "o", "r", "m", "a", "t">>, <<"p", "r", "e", "t", "t", "i", "e", "r">>, <<"f", "m", "t">>},
              prefix |-> <<<<"f", "o", "r", "m", "a", "t", ":">>>>]]

\* BLACKLIST_PATTERNS; the regular expressions carry the i flag, so they are
\* tested on the case-folded name, the strings are compared as written
isBlacklisted(scriptName) ==
  LET n == toLowerCase(scriptName) IN
  \/ Contains(n, <<"w", "a", "t", "c", "h">>)                     \* /watch/i
  \/ EndsWith(n, <<"d", "e", "v">>)                       \* /dev$/i
  \/ EndsWith(n, <<":", "d", "e", "v">>)                  \* /:dev$/i
  \/ StartsWith(n, <<"d", "e", "v", ":">>)                \* /^dev:/i
  \/ EndsWith(n, <<":", "f", "i", "x">>)                  \* /:fix$/i
  \/ EndsWith(n, <<"f", "i", "x">>)                       \* /fix$/i
  \/ EndsWith(n, <<":", "c", "i">>)                       \* /:ci$/i
  \/ Contains(n, <<"p", "r", "e", "v", "i", "e", "w">>)         \* /preview/i
  \/ Contains(n, <<"s", "e", "r", "v", "e">>)                     \* /serve/i
  \/ Contains(n, <<"i", "n", "s", "t", "a", "l", "l">>)         \* /install/i
  \/ Contains(n, <<"p", "o", "s", "t", "i", "n", "s", "t", "a", "l", "l">>)     \* /postinstall/i
  \/ Contains(n, <<"p", "r", "e", "i", "n", "s", "t", "a", "l", "l">>)      \* /preinstall/i
  \/ scriptName \in {<<"l", "i", "n", "t", "-", "s", "t", "a", "g", "e", "d">>,
                     <<"h", "u", "s", "k", "y">>,
                     <<"p", "r", "e", "p", "a", "r", "e">>,
                     <<"p", "r", "e", "p", "u", "b", "l", "i", "s", "h">>,
                     <<"p", "r", "e", "p", "u", "b", "l", "i", "s", "h", "O", "n", "l", "y">>}

\* patterns.exact.includes(lowerName)
IsExact(category, scriptName) ==
  toLowerCase(scriptName) \in SCRIPT_PATTERNS[category].exact

\* the lookup of categorizeScript after the blacklist test, from the i-th
\* category of CHECK_EXECUTION_ORDER on
RECURSIVE MatchCategory(_, _)
MatchCategory(lowerName, i) ==
  IF i > Len(CHECK_EXECUTION_ORDER) THEN null
  ELSE LET category == CHECK_EXECUTION_ORDER[i]
           patterns == SCRIPT_PATTERNS[category]
       IN IF lowerName \in patterns.exact THEN category
          ELSE IF \E k \in 1..Len(patterns.prefix) : StartsWith(lowerName, patterns.prefix[k])
               THEN category
          ELSE MatchCategory(lowerName, i + 1)

\* categorizeScript without the blacklist test
categorizeScript_NoBlacklist(scriptName) == MatchCategory(toLowerCase(scriptName), 1)

categorizeScript(scriptName) ==
  IF isBlacklisted(scriptName) THEN null
  ELSE MatchCategory(toLowerCase(scriptName), 1)

\* categorizeScript of every name of the universe, computed once
ScriptCategoryTable == [id \in ScriptIds |-> categorizeScript(ScriptUniverse[id])]

\* the lockfiles detectPackageManager looks for
Lockfiles == {"bun.lockb", "pnpm-lock.yaml", "yarn.lock"}

\* the lockfile tests with yarn.lock looked for before pnpm-lock.yaml
detectPackageManager_YarnFirst(present) ==
  IF "bun.lockb" \in present THEN "bun"
  ELSE IF "yarn.lock" \in present THEN "yarn"
  ELSE IF "pnpm-lock.yaml" \in present THEN "pnpm"
  ELSE "npm"

detectPackageManager(present) ==
  IF "bun.lockb" \in present THEN "bun"
  ELSE IF "pnpm-lock.yaml" \in present THEN "pnpm"
  ELSE IF "yarn.lock" \in present THEN "yarn"
  ELSE "npm"

\* getRunCommand: the manager's invocation, then the script name
getRunCommand(pm, scriptName) ==
  CASE pm = "npm" -> <<"n", "p", "m", " ", "r", "u", "n", " ">> \o scriptName
    [] pm = "yarn" -> <<"y", "a", "r", "n", " ">> \o scriptName
    [] pm = "pnpm" -> <<"p", "n", "p", "m", " ", "r", "u", "n", " ">> \o scriptName
    [] pm = "bun" -> <<"b", "u", "n", " ", "r", "u", "n", " ">> \o scriptName

\* a < b as Array.prototype.sort compares strings: by code unit, a proper
\* prefix first
RECURSIVE StrLess(_, _)
StrLess(a, b) ==
  IF Len(b) = 0 THEN FALSE
  ELSE IF Len(a) = 0 THEN TRUE
  ELSE IF Head(a) = Head(b) THEN StrLess(Tail(a), Tail(b))
  ELSE CharCode(Head(a)) < CharCode(Head(b))

\* StrLess of every two names of the universe, computed once
SortsBefore ==
  [a \in ScriptIds |-> [b \in ScriptIds |-> StrLess(ScriptUniverse[a], ScriptUniverse[b])]]

\* per category, the names of the universe that are exact names of it
ExactNames == [c \in CheckCategories |-> {id \in ScriptIds : IsExact(c, ScriptUniverse[id])}]

\* the sorted list with one more name put at its place
RECURSIVE InsertName(_, _)
InsertName(sorted, id) ==
  IF Len(sorted) = 0 THEN <<id>>
  ELSE IF SortsBefore[id][Head(sorted)] THEN <<id>> \o sorted
  ELSE <<Head(sorted)>> \o InsertName(Tail(sorted), id)

\* Object.keys(scripts).sort(): the keys, given by their ids in the order the
\* manifest declares them, sorted by code unit
RECURSIVE SortNames(_)
SortNames(names) ==
  IF Len(names) = 0 THEN <<>>
  ELSE InsertName(SortNames(SubSeq(names, 1, Len(names) - 1)), names[Len(names)])

\* the null of a scripts[category] slot that holds no DiscoveredScript
NullScript == [null |-> TRUE]

\* what a call that throws leaves to its caller
Raised == [raised |-> "TypeError"]

EmptyDiscovery(pm) ==
  [packageManager |-> pm,
   scripts |-> [c \in CheckCategories |-> NullScript],
   allScripts |-> <<>>]

\* the slot of a category that keeps whatever script comes first
KeepBest_FirstSeen(existing, discovered) ==
  IF existing = NullScript THEN discovered ELSE existing

\* lines 246-261: the script a category's slot holds once `discovered`, of
\* that category, has been seen
KeepBest(existing, discovered) ==
  IF existing = NullScript THEN discovered
  ELSE IF discovered.name \in ExactNames[discovered.category]
          /\ existing.name \notin ExactNames[discovered.category]
       THEN discovered
  ELSE existing

DiscoveredScript(pm, id, category) ==
  [name |-> id, command |-> id, category |-> category,
   runCommand |-> getRunCommand(pm, ScriptUniverse[id])]

\* the iteration that lists a script only when it does not replace another
Record_ReplaceUnlisted(result, discovered) ==
  [result EXCEPT
     !.allScripts = IF result.scripts[discovered.category] = NullScript
                       \/ KeepBest(result.scripts[discovered.category], discovered) # discovered
                    THEN Append(@, discovered) ELSE @,
     !.scripts[discovered.category] = KeepBest(@, discovered)]

\* one iteration of the loop for a script of a check category
Record(result, discovered) ==
  [result EXCEPT !.allScripts = Append(@, discovered),
                 !.scripts[discovered.category] = KeepBest(@, discovered)]

\* the iteration that records a script only in a slot that is still empty
Step_SlotOnly(result, id, category) ==
  IF category = null \/ result.scripts[category] # NullScript THEN result
  ELSE Record(result, DiscoveredScript(result.packageManager, id, category))

\* one iteration of the loop, for the script name of the given id
Step(result, id, category) ==
  IF category = null THEN result
  ELSE Record(result, DiscoveredScript(result.packageManager, id, category))

\* the loop of discoverScripts over the sorted names, from index i on
RECURSIVE ProcessScripts(_, _, _)
ProcessScripts(result, scriptNames, i) ==
  IF i > Len(scriptNames) THEN result
  ELSE ProcessScripts(
         Step(result, scriptNames[i], ScriptCategoryTable[scriptNames[i]]),
         scriptNames, i + 1)

\* discoverScripts(cwd): `present` the lockfiles in cwd, `pkg` its package.json.
\* pkg.state tells what reading and parsing the file gives: no file, a parse
\* error, the JSON value null, another value that is not an object, an object
\* without scripts, or an object whose scripts map has the keys pkg.names
discoverScripts(present, pkg) ==
  IF pkg.state \in {"missing", "invalid"} THEN EmptyDiscovery(detectPackageManager(present))
  ELSE IF pkg.state = "null" THEN Raised
  ELSE IF pkg.state \in {"nonobject", "noscripts"}
       THEN ProcessScripts(EmptyDiscovery(detectPackageManager(present)), <<>>, 1)
  ELSE ProcessScripts(EmptyDiscovery(detectPackageManager(present)), SortNames(pkg.names), 1)

-----------------------------------------------------------------------------
(* Script discovery as a state machine: a project directory, then calls of *)
(* categorizeScript and discoverScripts.                                    *)

\* the key order of a scripts map: sequences of distinct names
RECURSIVE Declarations(_)
Declarations(n) ==
  IF n = 0 THEN {<<>>}
  ELSE LET shorter == Declarations(n - 1)
           longest == {d \in shorter : Len(d) = n - 1}
       IN shorter \cup
          UNION {{Append(d, i) : i \in ScriptIds \ {d[k] : k \in 1..Len(d)}} : d \in longest}

DiffIdle ==
  /\ gitFiles = {}
  /\ gitStat = [ins |-> 0, del |-> 0]
  /\ gitOk = [files |-> TRUE, stats |-> TRUE]
  /\ config = [checks |-> DefaultChecks, scope |-> 1]
  /\ analysis = NoResult
  /\ reanalysis = NoResult

ScriptsInit ==
  /\ lockfiles \in SUBSET Lockfiles
  /\ manifest \in
       {[state |-> st, names |-> <<>>] : st \in {"missing", "invalid", "null", "nonobject", "noscripts"}}
       \cup {[state |-> "ok", names |-> d] : d \in Declarations(MaxScripts)}
  /\ discovery = NoResult
  /\ categorized = NoResult
  /\ DiffIdle
  /\ ConventionsIdle
  /\ RunnerIdle

\* categorizeScript on a name the manifest declares
CategorizeScript(id) ==
  /\ categorized = NoResult
  /\ \E k \in 1..Len(manifest.names) : manifest.names[k] = id
  /\ categorized' = [name |-> id, category |-> categorizeScript(ScriptUniverse[id])]
  /\ UNCHANGED <<lockfiles, manifest, discovery, diffVars, conventionVars, runnerVars>>

DiscoverScripts ==
  /\ discovery = NoResult
  /\ discovery' = discoverScripts(lockfiles, manifest)
  /\ UNCHANGED <<lockfiles, manifest, categorized, diffVars, conventionVars, runnerVars>>

ScriptsNext ==
  \/ \E id \in ScriptIds : CategorizeScript(id)
  \/ DiscoverScripts

SpecScripts == ScriptsInit /\ [][ScriptsNext]_vars

-----------------------------------------------------------------------------
(* Convention files (discovery/conventions.ts): loadFileContent.            *)
(* A file is the sequence of its bytes.  The bytes are ASCII characters, the *)
(* two bytes C3 A9 of the UTF-8 encoding of U+00E9, and the byte 00; a text  *)
(* is a sequence of characters, among them U+00E9 ("eacute") and the         *)
(* replacement character U+FFFD ("ufffd") the decoder puts for a byte that   *)
(* is no valid UTF-8.                                                        *)

\* the longest file, in bytes
MaxBytes == 3

ByteAlphabet == {"a", "\n", "C3", "A9", "00"}

\* Buffer.prototype.toString('utf-8')
RECURSIVE Utf8Decode(_)
Utf8Decode(buffer) ==
  IF Len(buffer) = 0 THEN <<>>
  ELSE IF Head(buffer) = "C3"
       THEN IF Len(buffer) >= 2 /\ buffer[2] = "A9"
            THEN <<"eacute">> \o Utf8Decode(SubSeq(buffer, 3, Len(buffer)))
            ELSE <<"ufffd">> \o Utf8Decode(Tail(buffer))
  ELSE IF Head(buffer) = "A9" THEN <<"ufffd">> \o Utf8Decode(Tail(buffer))
  ELSE IF Head(buffer) = "00" THEN <<"nul">> \o Utf8Decode(Tail(buffer))
  ELSE <<Head(buffer)>> \o Utf8Decode(Tail(buffer))

\* the UTF-8 bytes of a text
RECURSIVE Utf8Encode(_)
Utf8Encode(text) ==
  IF Len(text) = 0 THEN <<>>
  ELSE (CASE Head(text) = "eacute" -> <<"C3", "A9">>
          [] Head(text) = "ufffd" -> <<"EF", "BF", "BD">>
          [] Head(text) = "nul" -> <<"00">>
          [] OTHER -> <<Head(text)>>) \o Utf8Encode(Tail(text))

\* isValidTextFile: no null byte, and no replacement character once decoded
isValidTextFile(buffer) ==
  /\ \A i \in 1..Len(buffer) : buffer[i] # "00"
  /\ \A i \in 1..Len(Utf8Decode(buffer)) : Utf8Decode(buffer)[i] # "ufffd"

\* '\n... [truncated]'
TruncationMarker ==
  <<"\n", ".", ".", ".", " ", "[", "t", "r", "u", "n", "c", "a", "t", "e", "d", "]">>

\* buffer.slice(0, maxSize).toString('utf-8') + '\n... [truncated]'
TruncatedContent(buffer, maxSize) ==
  Utf8Decode(SubSeq(buffer, 1, maxSize)) \o TruncationMarker

\* lines 136-142: what loadFileContent returns for a valid text file
LoadedFile(buffer, maxSize) ==
  [content |-> IF Len(buffer) > maxSize THEN TruncatedContent(buffer, maxSize)
               ELSE Utf8Decode(buffer),
   size |-> Len(buffer),
   truncated |-> Len(buffer) > maxSize]

\* what is at a path: nothing, something isSafeToRead refuses, a directory, or
\* a regular file with its bytes
EntryKinds == {"missing", "unsafe", "directory", "file"}

\* loadFileContent(filePath, maxSize), `file` being what is at filePath
loadFileContent(file, maxSize) ==
  IF file.kind # "file" THEN NoFile
  ELSE IF ~isValidTextFile(file.bytes) THEN NoFile
  ELSE LoadedFile(file.bytes, maxSize)

\* every byte sequence of at most n bytes
ByteStrings(n) == UNION {[1..k -> ByteAlphabet] : k \in 0..n}

DiskEntries ==
  {[kind |-> k, bytes |-> <<>>] : k \in EntryKinds \ {"file"}}
  \cup {[kind |-> "file", bytes |-> b] : b \in ByteStrings(MaxBytes)}

LoadInit ==
  /\ loadEntry \in DiskEntries
  /\ loadMax \in 0..MaxBytes
  /\ loaded = NoResult
  /\ DedupIdle /\ DiscoverIdle
  /\ DiffIdle /\ ScriptsIdle
  /\ RunnerIdle

LoadFileContent ==
  /\ loaded = NoResult
  /\ loaded' = loadFileContent(loadEntry, loadMax)
  /\ UNCHANGED <<loadEntry, loadMax, dedupVars, discoverVars, diffVars, scriptVars, runnerVars>>

LoadNext == LoadFileContent

SpecLoad == LoadInit /\ [][LoadNext]_vars

-----------------------------------------------------------------------------
(* Convention files: deduplicateContent. *)

\* the longest list given to deduplicateContent
MaxFiles == 3

\* ConventionType, in the order of the type declaration
ConventionTypes == <<"claude-md", "cursorrules", "cursor-rules-dir", "claude-settings">>

\* priorityOrder.indexOf(type): 0-based, -1 for a type the order does not list
indexOf(priorityOrder, type) ==
  IF \E i \in 1..Len(priorityOrder) : priorityOrder[i] = type
  THEN (CHOOSE i \in 1..Len(priorityOrder) :
          priorityOrder[i] = type /\ \A j \in 1..(i - 1) : priorityOrder[j] # type) - 1
  ELSE -1

\* the characters String.prototype.trim removes
WhiteSpace == {" ", "\n", "\r", "\t"}

RECURSIVE TrimStart(_)
TrimStart(t) ==
  IF Len(t) > 0 /\ Head(t) \in WhiteSpace THEN TrimStart(Tail(t)) ELSE t

RECURSIVE TrimEnd(_)
TrimEnd(t) ==
  IF Len(t) > 0 /\ t[Len(t)] \in WhiteSpace THEN TrimEnd(SubSeq(t, 1, Len(t) - 1)) ELSE t

\* the comparison key without the line-ending replacement
Normalize_TrimOnly(content) == TrimEnd(TrimStart(content))

\* file.content.trim().replace(/\r\n/g, '\n')
Normalize(content) == ReplaceAll(TrimEnd(TrimStart(content)), <<"\r", "\n">>, <<"\n">>)

\* the sorted list with a file put before the files of its own priority
RECURSIVE InsertByPriority_BeforeTies(_, _, _)
InsertByPriority_BeforeTies(sorted, file, priorityOrder) ==
  IF Len(sorted) = 0 THEN <<file>>
  ELSE IF indexOf(priorityOrder, Head(sorted).type) - indexOf(priorityOrder, file.type) >= 0
       THEN <<file>> \o sorted
  ELSE <<Head(sorted)>> \o InsertByPriority_BeforeTies(Tail(sorted), file, priorityOrder)

\* the sorted list with one more file: the comparator aIndex - bIndex puts it
\* before the files of a larger index, and the sort, being stable, after the
\* earlier files of its own index
RECURSIVE InsertByPriority(_, _, _)
InsertByPriority(sorted, file, priorityOrder) ==
  IF Len(sorted) = 0 THEN <<file>>
  ELSE IF indexOf(priorityOrder, Head(sorted).type) - indexOf(priorityOrder, file.type) > 0
       THEN <<file>> \o sorted
  ELSE <<Head(sorted)>> \o InsertByPriority(Tail(sorted), file, priorityOrder)

\* [...files].sort((a, b) => aIndex - bIndex)
RECURSIVE SortByPriority(_, _)
SortByPriority(files, priorityOrder) ==
  IF Len(files) = 0 THEN <<>>
  ELSE InsertByPriority(SortByPriority(SubSeq(files, 1, Len(files) - 1), priorityOrder),
                        files[Len(files)], priorityOrder)

\* the loop over the sorted files, from index i on, with the contents seen
RECURSIVE KeepUnseen(_, _, _, _)
KeepUnseen(sorted, i, seenContent, result) ==
  IF i > Len(sorted) THEN result
  ELSE IF Normalize(sorted[i].content) \in seenContent
       THEN KeepUnseen(sorted, i + 1, seenContent, result)
  ELSE KeepUnseen(sorted, i + 1, seenContent \cup {Normalize(sorted[i].content)},
                  Append(result, sorted[i]))

deduplicateContent(files, priorityOrder) ==
  IF Len(files) <= 1 THEN files
  ELSE KeepUnseen(SortByPriority(files, priorityOrder), 1, {}, <<>>)

\* the contents a convention file of the lists may have
DedupContents == {
  <<"a", "\n", "b">>,
  <<" ", "a", "\r", "\n", "b", "\n">>,
  <<"b">>}

\* the priority orders given: the one of discoverConventionFiles, its reverse,
\* and one that lists two of the types only
PriorityOrders == {
  <<"claude-md", "cursorrules", "cursor-rules-dir", "claude-settings">>,
  <<"claude-settings", "cursor-rules-dir", "cursorrules", "claude-md">>,
  <<"claude-md", "cursorrules">>}

\* lists of at most n convention files, the path of a file being its position
FileLists(n) ==
  UNION {{[i \in 1..k |-> [path |-> i, type |-> ConventionTypes[t[i]], size |-> Len(c[i]),
                           content |-> c[i]]] :
            t \in [1..k -> 1..Len(ConventionTypes)], c \in [1..k -> DedupContents]} :
         k \in 0..n}

DedupInit ==
  /\ dedupFiles \in FileLists(MaxFiles)
  /\ dedupOrder \in PriorityOrders
  /\ dedupOnce = NoResult
  /\ dedupTwice = NoResult
  /\ LoadIdle /\ DiscoverIdle
  /\ DiffIdle /\ ScriptsIdle
  /\ RunnerIdle

\* deduplicateContent(files, priorityOrder)
Deduplicate ==
  /\ dedupOnce = NoResult
  /\ dedupOnce' = [files |-> deduplicateContent(dedupFiles, dedupOrder)]
  /\ UNCHANGED <<dedupFiles, dedupOrder, dedupTwice, loadVars, discoverVars, diffVars, scriptVars, runnerVars>>

\* deduplicateContent on the list the first call returned
DeduplicateAgain ==
  /\ dedupOnce # NoResult
  /\ dedupTwice = NoResult
  /\ dedupTwice' = [files |-> deduplicateContent(dedupOnce.files, dedupOrder)]
  /\ UNCHANGED <<dedupFiles, dedupOrder, dedupOnce, loadVars, discoverVars, diffVars, scriptVars, runnerVars>>

DedupNext == Deduplicate \/ DeduplicateAgain

SpecDedup == DedupInit /\ [][DedupNext]_vars

-----------------------------------------------------------------------------
(* Convention files: discoverConventionFiles.  The loop over the locations  *)
(* advances one file at a time: `location` is the index of the location the *)
(* loop is at, `entry` the index of the next file of the rules directory.   *)

\* the most entries the rules directory has
MaxRuleFiles == 2

\* CONVENTION_LOCATIONS: the type and isDirectory of each location, in order
\* (CLAUDE.md, .cursorrules, .cursor/rules, .claude/settings.json)
CONVENTION_LOCATIONS == <<
  [type |-> "claude-md", isDirectory |-> FALSE],
  [type |-> "cursorrules", isDirectory |-> FALSE],
  [type |-> "cursor-rules-dir", isDirectory |-> TRUE],
  [type |-> "claude-settings", isDirectory |-> FALSE]>>

\* the priorityOrder of discoverConventionFiles
DiscoveryPriorityOrder ==
  <<"claude-md", "cursorrules", "cursor-rules-dir", "claude-settings">>

\* a ConventionFile made of what loadFileContent returned
ConventionFile(path, type, result) ==
  [path |-> path, type |-> type, size |-> result.size, content |-> result.content]

\* the entries of the directory that load, from index k on, each with its path
RECURSIVE LoadEntries(_, _, _)
LoadEntries(entries, k, maxFileSize) ==
  IF k > Len(entries) THEN <<>>
  ELSE IF loadFileContent(entries[k], maxFileSize) = NoFile
       THEN LoadEntries(entries, k + 1, maxFileSize)
  ELSE <<ConventionFile(<<3, k>>, "cursor-rules-dir", loadFileContent(entries[k], maxFileSize))>>
       \o LoadEntries(entries, k + 1, maxFileSize)

\* loadDirectoryFiles(dirPath, maxFileSize), `dir` being what is at dirPath
loadDirectoryFiles(dir, maxFileSize) ==
  IF dir.kind # "directory" THEN <<>> ELSE LoadEntries(dir.entries, 1, maxFileSize)

\* the budget test that looks at the running total only
Fits_IgnoreSize(total, size, maxCombinedSize) == total <= maxCombinedSize

\* totalSize + file.size <= finalConfig.maxCombinedSize
Fits(total, size, maxCombinedSize) == total + size <= maxCombinedSize

\* the loop test that lets the loop go on at the budget
BudgetReached_Never(total, maxCombinedSize) == total > maxCombinedSize

\* totalSize >= finalConfig.maxCombinedSize
BudgetReached(total, maxCombinedSize) == total >= maxCombinedSize

\* the contents of the convention files of a project
ProjectTexts == {<<>>, <<"a">>, <<"a", "\n">>, <<"a", "\n", "b">>}

\* what a single-file location may hold
LocationEntries ==
  {[kind |-> "missing", bytes |-> <<>>]} \cup {[kind |-> "file", bytes |-> b] : b \in ProjectTexts}

\* what an entry of the rules directory may be: a text file or a binary one
RuleEntries ==
  {[kind |-> "file", bytes |-> <<"00">>]} \cup {[kind |-> "file", bytes |-> b] : b \in ProjectTexts}

\* what .cursor/rules may be: missing, or a directory of at most n entries
RuleDirectories(n) ==
  {[kind |-> "missing", entries |-> <<>>]}
  \cup UNION {{[kind |-> "directory", entries |-> e] : e \in [1..k -> RuleEntries]} : k \in 0..n}

\* the values of maxFileSize and maxCombinedSize a configuration may give:
\* the longest of the texts is over the file limit, and the budgets are such
\* that none, some or all of the files fit
FileSizeLimits == {2}
CombinedSizeLimits == {0, 2, 3, 5}

\* the files .cursor/rules gives under the configuration
DirFiles == loadDirectoryFiles(project.rules, finalConfig.maxFileSize)

DiscoverInit ==
  /\ project \in [files : [{1, 2, 4} -> LocationEntries], rules : RuleDirectories(MaxRuleFiles)]
  /\ finalConfig \in [maxFileSize : FileSizeLimits, maxCombinedSize : CombinedSizeLimits]
  /\ location = 1
  /\ entry = 0
  /\ totalSize = 0
  /\ discoveredFiles = <<>>
  /\ conventions = NoResult
  /\ LoadIdle /\ DedupIdle
  /\ DiffIdle /\ ScriptsIdle
  /\ RunnerIdle

\* the loop is at a location and has not left it
InLoop == location <= Len(CONVENTION_LOCATIONS)

\* lines 277-279: the budget is reached when the loop comes to a location
Break ==
  /\ InLoop /\ entry = 0
  /\ BudgetReached(totalSize, finalConfig.maxCombinedSize)
  /\ location' = Len(CONVENTION_LOCATIONS) + 1
  /\ UNCHANGED <<project, finalConfig, entry, totalSize, discoveredFiles, conventions>>
  /\ UNCHANGED <<loadVars, dedupVars, diffVars, scriptVars, runnerVars>>

\* discovered.push(file); totalSize += file.size, when the file fits
Accept(file) ==
  IF Fits(totalSize, file.size, finalConfig.maxCombinedSize)
  THEN /\ discoveredFiles' = Append(discoveredFiles, file)
       /\ totalSize' = totalSize + file.size
  ELSE UNCHANGED <<discoveredFiles, totalSize>>

\* lines 292-304: a location that is a single file
ScanFile ==
  /\ InLoop /\ ~CONVENTION_LOCATIONS[location].isDirectory
  /\ ~BudgetReached(totalSize, finalConfig.maxCombinedSize)
  /\ IF loadFileContent(project.files[location], finalConfig.maxFileSize) = NoFile
     THEN UNCHANGED <<discoveredFiles, totalSize>>
     ELSE Accept(ConventionFile(<<location, 0>>, CONVENTION_LOCATIONS[location].type,
                   loadFileContent(project.files[location], finalConfig.maxFileSize)))
  /\ location' = location + 1
  /\ UNCHANGED <<project, finalConfig, entry, conventions>>
  /\ UNCHANGED <<loadVars, dedupVars, diffVars, scriptVars, runnerVars>>

\* lines 283-291: the rules directory, one loaded file at a time; the budget
\* test of the loop applies when the directory is entered only
ScanDirectoryFile ==
  /\ InLoop /\ CONVENTION_LOCATIONS[location].isDirectory
  /\ entry > 0 \/ ~BudgetReached(totalSize, finalConfig.maxCombinedSize)
  /\ IF Len(DirFiles) = 0
     THEN /\ location' = location + 1
          /\ UNCHANGED <<entry, discoveredFiles, totalSize>>
     ELSE /\ Accept(DirFiles[IF entry = 0 THEN 1 ELSE entry])
          /\ IF (IF entry = 0 THEN 1 ELSE entry) = Len(DirFiles)
             THEN location' = location + 1 /\ entry' = 0
             ELSE location' = location /\ entry' = (IF entry = 0 THEN 1 ELSE entry) + 1
  /\ UNCHANGED <<project, finalConfig, conventions>>
  /\ UNCHANGED <<loadVars, dedupVars, diffVars, scriptVars, runnerVars>>

\* line 308: return deduplicateContent(discovered, priorityOrder)
ReturnConventions ==
  /\ ~InLoop
  /\ conventions = NoResult
  /\ conventions' = [files |-> deduplicateContent(discoveredFiles, DiscoveryPriorityOrder)]
  /\ UNCHANGED <<project, finalConfig, location, entry, totalSize, discoveredFiles>>
  /\ UNCHANGED <<loadVars, dedupVars, diffVars, scriptVars, runnerVars>>

DiscoverNext ==
  \/ Break
  \/ ScanFile
  \/ ScanDirectoryFile
  \/ ReturnConventions

SpecDiscover == DiscoverInit /\ [][DiscoverNext]_vars

-----------------------------------------------------------------------------
(* JavaScript values, as JSON.parse builds them and as the configuration     *)
(* code reads them: a value is a record tagged with its type, an object      *)
(* holds a function from its own keys to values.                             *)

Str(s) == [str |-> s]
Num(n) == [num |-> n]
Bool(b) == [bool |-> b]
List(items) == [list |-> items]
Obj(props) == [obj |-> props]

\* what reading a property of null or undefined raises
TypeError == [raised |-> "TypeError"]

IsObject(v) == "obj" \in DOMAIN v

Nullish(v) == v = undefined \/ v = JsNull

\* !v is false
Truthy(v) ==
  ~(Nullish(v) \/ v = Bool(FALSE) \/ v = Num(0) \/ v = Str(""))

\* the own enumerable properties an object spread copies
Props(v) == IF IsObject(v) THEN v.obj ELSE <<>>

\* o.k
Get(o, k) ==
  IF Nullish(o) THEN TypeError
  ELSE IF k \in DOMAIN Props(o) THEN Props(o)[k] ELSE undefined

\* o?.k
OptGet(o, k) == IF Nullish(o) THEN undefined ELSE Get(o, k)

\* a ?? b
Coalesce(a, b) == IF Nullish(a) THEN b ELSE a

\* { ...a, ...b }
Spread(a, b) == Obj(Props(b) @@ Props(a))


-----------------------------------------------------------------------------
(* config.ts: DEFAULT_CONFIG, mergeConfig, loadConfigFile, loadConfig.       *)

VAPI_NEXTJS_COVERAGE_SCOPE ==
  Obj("include" :> List(<<"regex:^src/app/.*\\.(ts|tsx)$", "regex:^src/lib/.*\\.ts$">>)
   @@ "exclude" :> List(<<"regex:^src/test/", "regex:/types/">>))

DEFAULT_CONFIG ==
  Obj("model" :> Str("claude-opus-4-5-20251101")
   @@ "maxTurns" :> Num(50)
   @@ "coverageThresholds" :>
        Obj("lines" :> Num(90) @@ "statements" :> Num(90)
         @@ "functions" :> Num(78) @@ "branches" :> Num(80))
   @@ "coverageScope" :>
        Obj("include" :> List(<<"src/**/*.ts", "src/**/*.tsx">>)
         @@ "exclude" :> List(<<"src/test/**", "**/*.test.ts", "**/types/**">>))
   @@ "checks" :>
        Obj("rules" :> Bool(TRUE) @@ "typecheck" :> Bool(TRUE)
         @@ "tests" :> Bool(TRUE) @@ "coverage" :> Bool(TRUE))
   @@ "commands" :>
        Obj("typecheck" :> Str("npm run typecheck")
         @@ "test" :> Str("npm run test")
         @@ "testCoverage" :> Str("npm run test:coverage:ci")
         @@ "testRelated" :> Str("npm run test:related")
         @@ "testCoverageRelated" :> Str("npm run test:coverage:related"))
   @@ "rulesFile" :> Str(".cursorrules")
   @@ "rulesGuidance" :> Obj("allFiles" :> List(<<"No hardcoded values (use constants)">>)))

getCoverageScope(partial, defaults) ==
  IF OptGet(partial, "coveragePreset") = Str("vapi-nextjs")
  THEN VAPI_NEXTJS_COVERAGE_SCOPE
  ELSE Obj("include" :> Coalesce(OptGet(OptGet(partial, "coverageScope"), "include"),
                                 Get(Get(defaults, "coverageScope"), "include"))
        @@ "exclude" :> Coalesce(OptGet(OptGet(partial, "coverageScope"), "exclude"),
                                 Get(Get(defaults, "coverageScope"), "exclude")))

\* the object literal mergeConfig returns for a partial that is not falsy
MergedFields(partial, defaults) ==
  "model" :> Coalesce(Get(partial, "model"), Get(defaults, "model"))
  @@ "maxTurns" :> Coalesce(Get(partial, "maxTurns"), Get(defaults, "maxTurns"))
  @@ "coverageThresholds" :>
       Spread(Get(defaults, "coverageThresholds"), Get(partial, "coverageThresholds"))
  @@ "coverageScope" :> getCoverageScope(partial, defaults)
  @@ "coveragePreset" :> Get(partial, "coveragePreset")
  @@ "checks" :> Spread(Get(defaults, "checks"), Get(partial, "checks"))
  @@ "commands" :> Spread(Get(defaults, "commands"), Get(partial, "commands"))
  @@ "rulesFile" :> Coalesce(Get(partial, "rulesFile"), Get(defaults, "rulesFile"))
  @@ "systemPrompt" :> Get(partial, "systemPrompt")
  @@ "additionalInstructions" :> Get(partial, "additionalInstructions")
  @@ "rulesGuidance" :> Coalesce(Get(partial, "rulesGuidance"), Get(defaults, "rulesGuidance"))

\* a property read somewhere in the literal raised
Raises(fields) ==
  \/ \E k \in DOMAIN fields : fields[k] = TypeError
  \/ \E k \in DOMAIN Props(fields["coverageScope"]) :
       Props(fields["coverageScope"])[k] = TypeError

mergeConfig(partial, defaults) ==
  IF ~Truthy(partial)
  THEN Obj(Props(defaults))
  ELSE IF Raises(MergedFields(partial, defaults))
       THEN TypeError
       ELSE Obj(MergedFields(partial, defaults))


CONFIG_FILE_NAMES ==
  <<"bulletproof.config.json", "bulletproof.config.js", ".bulletproofrc", ".bulletproofrc.json">>

\* the index of package.json in configDisk, after the configuration file names
PackageJson == Len(CONFIG_FILE_NAMES) + 1

\* what JSON.parse raises
SyntaxError == [raised |-> "SyntaxError"]

\* JSON.parse, on the texts the model puts on disk
JSONParse(text) ==
  CASE text = "null" -> JsNull
    [] text = "7" -> Num(7)
    [] text = "{}" -> Obj(<<>>)
    [] text = "{\"model\":\"m1\"}" -> Obj("model" :> Str("m1"))
    [] text = "{\"maxTurns\":7}" -> Obj("maxTurns" :> Num(7))
    [] text = "{\"checks\":null,\"coverageScope\":null}" ->
         Obj("checks" :> JsNull @@ "coverageScope" :> JsNull)
    [] text = "{\"name\":\"app\"}" -> Obj("name" :> Str("app"))
    [] text = "{\"name\":\"app\",\"bulletproof\":null}" ->
         Obj("name" :> Str("app") @@ "bulletproof" :> JsNull)
    [] text = "{\"name\":\"app\",\"bulletproof\":{\"rulesFile\":\"R.md\"}}" ->
         Obj("name" :> Str("app") @@ "bulletproof" :> Obj("rulesFile" :> Str("R.md")))
    [] OTHER -> SyntaxError

\* existsSync
existsSync(file) == file.kind # "missing"

\* JSON.parse(readFileSync(path, 'utf-8')): reading a directory raises
ReadJson(file) ==
  IF file.kind = "directory" THEN [raised |-> "EISDIR"] ELSE JSONParse(file.text)

IsRaised(v) == "raised" \in DOMAIN v

\* the loop over CONFIG_FILE_NAMES, from the i-th name on: the value returned
\* from inside the loop, or NoResult when the loop ends without a return
SearchConfigFiles_StopAtMalformed(disk, i) ==
  LET first == {k \in i..Len(CONFIG_FILE_NAMES) : existsSync(disk[k])}
  IN IF first = {} THEN NoResult
     ELSE LET k == CHOOSE m \in first : \A n \in first : m <= n
          IN IF IsRaised(ReadJson(disk[k])) THEN [value |-> JsNull]
             ELSE [value |-> ReadJson(disk[k])]

RECURSIVE SearchConfigFiles(_, _)
SearchConfigFiles(disk, i) ==
  IF i > Len(CONFIG_FILE_NAMES) THEN NoResult
  ELSE IF existsSync(disk[i]) /\ ~IsRaised(ReadJson(disk[i]))
       THEN [value |-> ReadJson(disk[i])]
       ELSE SearchConfigFiles(disk, i + 1)

\* the package.json block of loadConfigFile
PackageConfig(pkgFile) ==
  IF ~existsSync(pkgFile) THEN JsNull
  ELSE IF IsRaised(ReadJson(pkgFile)) THEN JsNull
  ELSE IF IsRaised(Get(ReadJson(pkgFile), "bulletproof")) THEN JsNull
  ELSE IF Truthy(Get(ReadJson(pkgFile), "bulletproof"))
       THEN Get(ReadJson(pkgFile), "bulletproof")
       ELSE JsNull

loadConfigFile(disk) ==
  IF SearchConfigFiles(disk, 1) # NoResult
  THEN SearchConfigFiles(disk, 1).value
  ELSE PackageConfig(disk[PackageJson])

loadConfig(disk) == mergeConfig(loadConfigFile(disk), DEFAULT_CONFIG)

\* what a configuration file name, and package.json, may hold
ConfigFileStates ==
  {[kind |-> "missing", text |-> ""], [kind |-> "directory", text |-> ""]}
  \cup {[kind |-> "file", text |-> t] :
          t \in {"module.exports = {}", "null", "{\"model\":\"m1\"}",
                 "{\"checks\":null,\"coverageScope\":null}"}}

ManifestStates ==
  {[kind |-> "missing", text |-> ""]}
  \cup {[kind |-> "file", text |-> t] :
          t \in {"{ \"name\": ", "null", "7", "{\"name\":\"app\"}",
                 "{\"name\":\"app\",\"bulletproof\":null}",
                 "{\"name\":\"app\",\"bulletproof\":{\"rulesFile\":\"R.md\"}}"}}

ConfigDisks ==
  {d \in [1..PackageJson -> ConfigFileStates \cup ManifestStates] :
     /\ \A i \in 1..Len(CONFIG_FILE_NAMES) : d[i] \in ConfigFileStates
     /\ d[PackageJson] \in ManifestStates}

LoadConfigInit ==
  /\ configDisk \in ConfigDisks
  /\ fileConfig = NoResult
  /\ loadedConfig = NoResult
  /\ MergeIdle /\ PatternIdle /\ GuardianIdle /\ SectionsIdle
  /\ DiffIdle /\ ScriptsIdle /\ ConventionsIdle

LoadConfigFile ==
  /\ fileConfig = NoResult
  /\ fileConfig' = [value |-> loadConfigFile(configDisk)]
  /\ UNCHANGED <<configDisk, loadedConfig, mergeVars, patternVars, guardianVars, sectionVars, diffVars, scriptVars, conventionVars>>

LoadConfig ==
  /\ loadedConfig = NoResult
  /\ loadedConfig' = [value |-> loadConfig(configDisk)]
  /\ UNCHANGED <<configDisk, fileConfig, mergeVars, patternVars, guardianVars, sectionVars, diffVars, scriptVars, conventionVars>>

LoadConfigNext == LoadConfigFile \/ LoadConfig

SpecConfig == LoadConfigInit /\ [][LoadConfigNext]_vars


\* a key that a partial configuration may leave out
Optional(key, values) == {<<>>} \cup {key :> v : v \in values}

\* the partial configurations given to mergeConfig, and null
PartialConfigs ==
  {JsNull} \cup
  {Obj(a @@ b @@ c @@ d @@ e @@ f @@ g @@ h) :
     a \in Optional("model", {Str("m1")}),
     b \in Optional("maxTurns", {Num(7)}),
     c \in Optional("rulesFile", {Str("R.md")}),
     d \in Optional("systemPrompt", {Str("be brief")}),
     e \in Optional("additionalInstructions", {Str("no mocks")}),
     f \in Optional("checks", {Obj("coverage" :> Bool(FALSE)),
                               Obj("rules" :> Bool(FALSE) @@ "lint" :> Bool(TRUE))}),
     g \in Optional("commands", {Obj("test" :> Str("vitest run"))}),
     h \in {<<>>,
            "coverageThresholds" :> Obj("lines" :> Num(50)),
            "coveragePreset" :> Str("vapi-nextjs"),
            "coverageScope" :> Obj("include" :> List(<<"lib/**">>))}}

\* the defaults given to mergeConfig: DEFAULT_CONFIG, and configurations that
\* also set the optional prompts or disable a check
DefaultConfigs ==
  {DEFAULT_CONFIG,
   Obj(("systemPrompt" :> Str("be exact") @@ "additionalInstructions" :> Str("no skips"))
       @@ Props(DEFAULT_CONFIG)),
   Obj(("checks" :> Obj("rules" :> Bool(TRUE) @@ "typecheck" :> Bool(FALSE)
                        @@ "tests" :> Bool(TRUE) @@ "coverage" :> Bool(TRUE))
        @@ "maxTurns" :> Num(10))
       @@ Props(DEFAULT_CONFIG))}

MergeInit ==
  /\ mergePartial \in PartialConfigs
  /\ mergeDefaults \in DefaultConfigs
  /\ merged = NoResult
  /\ LoadConfigIdle /\ PatternIdle /\ GuardianIdle /\ SectionsIdle
  /\ DiffIdle /\ ScriptsIdle /\ ConventionsIdle

MergeConfig ==
  /\ merged = NoResult
  /\ merged' = [value |-> mergeConfig(mergePartial, mergeDefaults)]
  /\ UNCHANGED <<mergePartial, mergeDefaults, loadConfigVars, patternVars, guardianVars, sectionVars, diffVars, scriptVars, conventionVars>>

MergeNext == MergeConfig

SpecMerge == MergeInit /\ [][MergeNext]_vars


-----------------------------------------------------------------------------
(* config.ts: patternToRegex(pattern).test(file), on every short pattern.    *)

\* patterns and paths have at most this many characters
MaxPatternLen == 3

PatternAlphabet == {"a", "/", ".", "*", "?"}

PathAlphabet == {"a", "b", "/", ".", "?"}

Strings(alphabet, n) == UNION {[1..k -> alphabet] : k \in 0..n}

\* regular expressions a pattern may carry behind the "regex:" tag
TaggedSources == {<<"a">>, <<"^", "a", "$">>, <<"a", "?", "b">>, <<"^", "[", "^", "/", "]", "*", "$">>, <<"*">>}

CoveragePatterns ==
  Strings(PatternAlphabet, MaxPatternLen) \cup {REGEX_TAG \o src : src \in TaggedSources}

\* patternToRegex(pattern).test(file): "throw" when new RegExp raises
PatternTest(pattern, file) ==
  LET re == RegExpCompile(patternToRegex(pattern))
  IN IF ~re.ok THEN "throw"
     ELSE IF RegExpTest(re.atoms, file) THEN "true" ELSE "false"

PatternInit ==
  /\ coveragePattern \in CoveragePatterns
  /\ testedPath \in Strings(PathAlphabet, MaxPatternLen)
  /\ patternMatched = NoResult
  /\ LoadConfigIdle /\ MergeIdle /\ GuardianIdle /\ SectionsIdle
  /\ DiffIdle /\ ScriptsIdle /\ ConventionsIdle

TestPattern ==
  /\ patternMatched = NoResult
  /\ patternMatched' = [value |-> PatternTest(coveragePattern, testedPath)]
  /\ UNCHANGED <<coveragePattern, testedPath, loadConfigVars, mergeVars, guardianVars, sectionVars, diffVars, scriptVars, conventionVars>>

PatternNext == TestPattern

SpecPattern == PatternInit /\ [][PatternNext]_vars


-----------------------------------------------------------------------------
(* guardian.ts: GuardianRunner.run, one action per stage of the method.      *)

\* what runClaudeAgent returns: the agent announced ALL CHECKS PASSED and the
\* query ended ("passed"), the query ended without the announcement
\* ("stopped"), or the query raised ("raised")
runClaudeAgent(agent) ==
  CASE agent = "passed" -> [success |-> TRUE, error |-> undefined]
    [] agent = "stopped" -> [success |-> FALSE, error |-> undefined]
    [] OTHER -> [success |-> FALSE, error |-> Str("Error: query failed")]

\* commitFixes: false without uncommitted changes ("clean") and when git
\* fails ("failed"), true once the auto-fix commit is made ("committed")
commitFixes(commit) == commit = "committed"

\* the stage after the commit step with the push also taken in hook mode
NextAfterCommit_PushInHook(hookMode, skipPush) ==
  IF skipPush THEN "return" ELSE "push"

\* the branches after the commit step, lines 255-272: hook mode prints its
\* banner and leaves the push to git, otherwise the push runs unless skipPush
NextAfterCommit(hookMode, skipPush) ==
  IF hookMode THEN "return"
  ELSE IF skipPush THEN "return" ELSE "push"

\* the object literal of lines 302-309
GuardianResult(locals) ==
  [success |-> locals.success, fixesCommitted |-> locals.fixesCommitted,
   pushed |-> locals.pushed, error |-> locals.claudeResult.error]

\* the object literal of lines 275-282
PushFailedResult(locals) ==
  [success |-> FALSE, fixesCommitted |-> locals.fixesCommitted,
   pushed |-> FALSE, error |-> Str("Push failed")]

RunInit ==
  /\ runOptions \in [hookMode : BOOLEAN, skipPush : BOOLEAN]
  /\ runOutcomes \in [agent : {"passed", "stopped", "raised"}, verify : BOOLEAN,
                      commit : {"clean", "committed", "failed"}, push : BOOLEAN]
  /\ runPc = "start"
  /\ runLocals = [claudeResult |-> NoResult, success |-> FALSE,
                  fixesCommitted |-> FALSE, pushed |-> FALSE]
  /\ runEffects = <<>>
  /\ runResult = NoResult
  /\ LoadConfigIdle /\ MergeIdle /\ PatternIdle /\ SectionsIdle
  /\ DiffIdle /\ ScriptsIdle /\ ConventionsIdle

\* lines 162-214: the logo, the discovery, the diff analysis, the merge
Prepare ==
  /\ runPc = "start"
  /\ runPc' = "agent"
  /\ UNCHANGED <<runOptions, runOutcomes, runLocals, runEffects, runResult>>
  /\ UNCHANGED <<loadConfigVars, mergeVars, patternVars, sectionVars, diffVars, scriptVars, conventionVars>>

\* lines 217-229
RunAgent ==
  /\ runPc = "agent"
  /\ runLocals' = [runLocals EXCEPT
                     !.claudeResult = runClaudeAgent(runOutcomes.agent),
                     !.success = runClaudeAgent(runOutcomes.agent).success]
  /\ runPc' = IF runClaudeAgent(runOutcomes.agent).success THEN "summary" ELSE "verify"
  /\ UNCHANGED <<runOptions, runOutcomes, runEffects, runResult>>
  /\ UNCHANGED <<loadConfigVars, mergeVars, patternVars, sectionVars, diffVars, scriptVars, conventionVars>>

\* lines 232-234
VerifyFinalState ==
  /\ runPc = "verify"
  /\ runLocals' = [runLocals EXCEPT !.success = runOutcomes.verify]
  /\ runPc' = "summary"
  /\ UNCHANGED <<runOptions, runOutcomes, runEffects, runResult>>
  /\ UNCHANGED <<loadConfigVars, mergeVars, patternVars, sectionVars, diffVars, scriptVars, conventionVars>>

\* lines 236-251: the summary, then the branch on success
Summarize ==
  /\ runPc = "summary"
  /\ runLocals' = [runLocals EXCEPT !.fixesCommitted = FALSE, !.pushed = FALSE]
  /\ runPc' = IF runLocals.success THEN "commit" ELSE "failure"
  /\ UNCHANGED <<runOptions, runOutcomes, runEffects, runResult>>
  /\ UNCHANGED <<loadConfigVars, mergeVars, patternVars, sectionVars, diffVars, scriptVars, conventionVars>>

\* lines 253-272
CommitFixes ==
  /\ runPc = "commit"
  /\ runLocals' = [runLocals EXCEPT !.fixesCommitted = commitFixes(runOutcomes.commit)]
  /\ runEffects' = Append(runEffects, "commit")
  /\ runPc' = NextAfterCommit(runOptions.hookMode, runOptions.skipPush)
  /\ UNCHANGED <<runOptions, runOutcomes, runResult>>
  /\ UNCHANGED <<loadConfigVars, mergeVars, patternVars, sectionVars, diffVars, scriptVars, conventionVars>>

\* lines 273-283
PushToRemote ==
  /\ runPc = "push"
  /\ runLocals' = [runLocals EXCEPT !.pushed = runOutcomes.push]
  /\ runEffects' = Append(runEffects, "push")
  /\ IF runOutcomes.push
     THEN runPc' = "return" /\ UNCHANGED runResult
     ELSE runPc' = "done" /\ runResult' = PushFailedResult(runLocals')
  /\ UNCHANGED <<runOptions, runOutcomes>>
  /\ UNCHANGED <<loadConfigVars, mergeVars, patternVars, sectionVars, diffVars, scriptVars, conventionVars>>

\* lines 286-300
ReportFailure ==
  /\ runPc = "failure"
  /\ runPc' = "return"
  /\ UNCHANGED <<runOptions, runOutcomes, runLocals, runEffects, runResult>>
  /\ UNCHANGED <<loadConfigVars, mergeVars, patternVars, sectionVars, diffVars, scriptVars, conventionVars>>

\* lines 302-309
ReturnResult ==
  /\ runPc = "return"
  /\ runResult' = GuardianResult(runLocals)
  /\ runPc' = "done"
  /\ UNCHANGED <<runOptions, runOutcomes, runLocals, runEffects>>
  /\ UNCHANGED <<loadConfigVars, mergeVars, patternVars, sectionVars, diffVars, scriptVars, conventionVars>>

RunNext ==
  \/ Prepare
  \/ RunAgent
  \/ VerifyFinalState
  \/ Summarize
  \/ CommitFixes
  \/ PushToRemote
  \/ ReportFailure
  \/ ReturnResult

SpecRun == RunInit /\ [][RunNext]_vars


-----------------------------------------------------------------------------
(* ui/sections.ts: the SectionsState and the calls that change it.           *)

\* at most this many checks are enabled in the configuration a state is
\* created from
MaxActiveSections == 3

\* the ids of ALL_SECTIONS, in execution order
ALL_SECTIONS == <<"rules", "lint", "format", "typecheck", "build", "tests", "coverage">>

\* the section ids a caller may pass: those of ALL_SECTIONS and one that is none
SectionIds == {ALL_SECTIONS[i] : i \in 1..Len(ALL_SECTIONS)} \cup {"deploy"}

createSectionsState(checks) ==
  LET sections == SelectSeq(ALL_SECTIONS, LAMBDA id : id \in DOMAIN checks /\ checks[id])
  IN [sections |-> sections,
      statuses |-> [i \in 1..Len(sections) |-> "pending"],
      currentIndex |-> -1]

\* state.sections.findIndex((s) => s.id === sectionId), counted from 0
findIndex(sections, sectionId) ==
  LET hits == {i \in 1..Len(sections) : sections[i] = sectionId}
  IN IF hits = {} THEN -1 ELSE (CHOOSE i \in hits : \A j \in hits : i <= j) - 1

updateSectionStatus(state, sectionId, status) ==
  LET index == findIndex(state.sections, sectionId)
  IN IF index # -1
     THEN [state EXCEPT !.statuses[index + 1] = status]
     ELSE state

\* startSection moving to any active section, backwards too
startSection_AnyDirection(state, sectionId) ==
  LET index == findIndex(state.sections, sectionId)
  IN IF index # -1
     THEN [state |-> [state EXCEPT !.currentIndex = index, !.statuses[index + 1] = "running"],
           returned |-> TRUE]
     ELSE [state |-> state, returned |-> FALSE]

\* startSection: the state it leaves and the value it returns
startSection(state, sectionId) ==
  LET index == findIndex(state.sections, sectionId)
  IN IF index # -1 /\ index > state.currentIndex
     THEN [state |-> [state EXCEPT !.currentIndex = index, !.statuses[index + 1] = "running"],
           returned |-> TRUE]
     ELSE [state |-> state, returned |-> FALSE]

markAllPassed(state) ==
  [state EXCEPT !.statuses =
     [i \in 1..Len(state.statuses) |->
        IF state.statuses[i] \in {"running", "pending"} THEN "passed" ELSE state.statuses[i]]]

\* the checks a state is created from: any choice of enabled checks, within the bound
SectionChecks ==
  {checks \in [CheckNames -> BOOLEAN] :
     Cardinality({c \in CheckNames : checks[c]}) <= MaxActiveSections}

SectionsInit ==
  /\ \E checks \in SectionChecks : sectionsState = createSectionsState(checks)
  /\ lastCall = [op |-> "createSectionsState", id |-> "", returned |-> FALSE]
  /\ LoadConfigIdle /\ MergeIdle /\ PatternIdle /\ GuardianIdle
  /\ DiffIdle /\ ScriptsIdle /\ ConventionsIdle

StartSection ==
  \E sectionId \in SectionIds :
    /\ sectionsState' = startSection(sectionsState, sectionId).state
    /\ lastCall' = [op |-> "startSection", id |-> sectionId,
                    returned |-> startSection(sectionsState, sectionId).returned]
    /\ UNCHANGED <<loadConfigVars, mergeVars, patternVars, guardianVars, diffVars, scriptVars, conventionVars>>

UpdateSectionStatus ==
  \E sectionId \in SectionIds, status \in {"passed", "failed"} :
    /\ sectionsState' = updateSectionStatus(sectionsState, sectionId, status)
    /\ lastCall' = [op |-> "updateSectionStatus", id |-> sectionId, returned |-> FALSE]
    /\ UNCHANGED <<loadConfigVars, mergeVars, patternVars, guardianVars, diffVars, scriptVars, conventionVars>>

MarkAllPassed ==
  /\ sectionsState' = markAllPassed(sectionsState)
  /\ lastCall' = [op |-> "markAllPassed", id |-> "", returned |-> FALSE]
  /\ UNCHANGED <<loadConfigVars, mergeVars, patternVars, guardianVars, diffVars, scriptVars, conventionVars>>

SectionsNext == StartSection \/ UpdateSectionStatus \/ MarkAllPassed

SpecSections == SectionsInit /\ [][SectionsNext]_vars

-----------------------------------------------------------------------------
(* Properties of the diff analysis, checked under SpecDiff. *)

SeqSet(s) == {s[i] : i \in 1..Len(s)}

Analyzed == analysis # NoResult

\* the analysis ran to the end of its try block
Completed == Analyzed /\ analysis.reason.text # "Full checks (could not analyze diff)"

\* a check runs when its flag is set and true (the consumers test `checks.x`)
IsEnabled(checks, c) == c \in DOMAIN checks /\ checks[c]

EnabledChecks(checks) == {c \in CheckNames : IsEnabled(checks, c)}

Path(f) == FileUniverse[f]

\* the earliest bucket whose patterns the path matches, null when none does
FirstBucket(file) ==
  LET hits == {i \in 1..Len(Buckets) : MatchesBucket(file, Buckets[i])}
  IN IF hits = {} THEN null ELSE Buckets[CHOOSE i \in hits : \A j \in hits : i <= j]

\* the pattern p, as a glob, matches the path
GlobMatches(p, file) ==
  LET re == RegExpCompile(toRegex(p)) IN re.ok /\ RegExpTest(re.atoms, file)

\* at least one include pattern and no exclude pattern matches
InScope(file, scope) ==
  /\ \E k \in 1..Len(scope.include) : GlobMatches(scope.include[k], file)
  /\ ~ \E k \in 1..Len(scope.exclude) : GlobMatches(scope.exclude[k], file)

\* FirstBucket and InScope of every file of the universe, computed once
FirstBucketOf == [f \in FileIds |-> FirstBucket(Path(f))]

InScopeOf == [s \in 1..Len(Scopes) |-> [f \in FileIds |-> InScope(Path(f), Scopes[s])]]

MatchesOf == [f \in FileIds |-> {b \in SeqSet(Buckets) : MatchesBucket(Path(f), b)}]

\* every file of the returned list falls in bucket b, and there is one
AllFilesAre(b) ==
  /\ Len(analysis.files) > 0
  /\ \A f \in SeqSet(analysis.files) : FirstBucketOf[f] = b

TotalLines == analysis.additions + analysis.deletions

CoveredCount == Len(analysis.categories.coveredSrc)

\* the buckets of the six categories that hold file f
BucketsOf(f) == {b \in SeqSet(Buckets) : f \in SeqSet(analysis.categories[b])}

BucketSizes ==
  Len(analysis.categories.docs) + Len(analysis.categories.config)
  + Len(analysis.categories.scripts) + Len(analysis.categories.tests)
  + Len(analysis.categories.types) + Len(analysis.categories.src)

\* C1: when a git query fails, the returned checks are the configured checks
\* and the reason says the diff could not be analysed.
C1_QueryFailureRunsConfiguredChecks ==
  (Analyzed /\ (~gitOk.files \/ ~gitOk.stats)) =>
    /\ analysis.checks = config.checks
    /\ analysis.reason.text = "Full checks (could not analyze diff)"

\* C2: every returned DiffAnalysis assigns a boolean to each of the seven checks.
C2_ChecksFullyAssigned ==
  Analyzed =>
    /\ DOMAIN analysis.checks = CheckNames
    /\ \A c \in CheckNames : analysis.checks[c] \in BOOLEAN

\* the reason texts of the eight branches, in the order of the decision tree
BranchTexts == <<
  {"Docs only"}, {"Config only"}, {"Scripts only"}, {"Tests only"},
  {"not in coverage scope", "No covered code changed"},
  {"Small diff"}, {"Medium diff"}, {"Large diff"}>>

\* the branches whose reason the returned reason is
BranchesProduced == {i \in 1..Len(BranchTexts) : analysis.reason.text \in BranchTexts[i]}

\* the conditions of the eight branches on the returned files and counts
BranchHolds(i) ==
  CASE i = 1 -> AllFilesAre("docs")
    [] i = 2 -> AllFilesAre("config")
    [] i = 3 -> AllFilesAre("scripts")
    [] i = 4 -> AllFilesAre("tests")
    [] i = 5 -> \A f \in SeqSet(analysis.files) :
                  ~(FirstBucketOf[f] = "src" /\ InScopeOf[config.scope][f])
    [] i = 6 -> TotalLines < 200 /\ CoveredCount <= 3
    [] i = 7 -> TotalLines < 500 /\ CoveredCount <= 10
    [] i = 8 -> TRUE

FirstBranchHolding == CHOOSE i \in 1..8 : BranchHolds(i) /\ \A j \in 1..(i - 1) : ~BranchHolds(j)

C4_BucketsPartitionFiles ==
  Analyzed =>
    /\ \A f \in SeqSet(analysis.files) : Cardinality(BucketsOf(f)) = 1
    /\ BucketSizes = Len(analysis.files)

\* C4 amended: every changed file is in at most one of the six buckets, the
\* buckets hold changed files only, and when the analysis completes a file is
\* in a bucket exactly when it matches the patterns of some category; the
\* sizes sum to the number of bucketed files.
C4_BucketsDisjoint ==
  Analyzed =>
    /\ \A f \in SeqSet(analysis.files) : Cardinality(BucketsOf(f)) <= 1
    /\ \A b \in SeqSet(Buckets) : SeqSet(analysis.categories[b]) \subseteq SeqSet(analysis.files)
    /\ BucketSizes = Cardinality({f \in SeqSet(analysis.files) : BucketsOf(f) # {}})
    /\ Completed =>
         \A f \in SeqSet(analysis.files) : (BucketsOf(f) # {}) <=> (FirstBucketOf[f] # null)

\* a completed analysis of a diff with a file that matches no category
C4_Witness ==
  /\ Completed
  /\ \E f \in SeqSet(analysis.files) : FirstBucketOf[f] = null /\ BucketsOf(f) = {}
  /\ BucketSizes = Len(analysis.files) - 1
  /\ BucketSizes > 0

\* C5: a bucketed file is in the earliest bucket whose patterns it matches and
\* in no other; coveredSrc is the files of the src bucket that match an include
\* pattern and no exclude pattern.
C5_FirstCategoryWins ==
  Analyzed =>
    /\ \A f \in SeqSet(analysis.files) : BucketsOf(f) \subseteq {FirstBucketOf[f]}
    /\ analysis.categories.coveredSrc =
         SelectSeq(analysis.categories.src, LAMBDA f : InScopeOf[config.scope][f])

\* a file matching the scripts, tests and src patterns sits in scripts only,
\* next to a covered and an uncovered source file
C5_Witness ==
  /\ Completed
  /\ \E f \in SeqSet(analysis.files) :
       /\ {"scripts", "tests", "src"} \subseteq MatchesOf[f]
       /\ BucketsOf(f) = {"scripts"}
  /\ CoveredCount > 0
  /\ CoveredCount < Len(analysis.categories.src)

\* C6: a non-empty diff of docs files only enables the rules check alone,
\* leaves related-tests mode off and gives the reason "Docs only (N file[s])".
C6_DocsOnly ==
  (Analyzed /\ Len(analysis.files) > 0
     /\ \A f \in SeqSet(analysis.files) : "docs" \in MatchesOf[f]) =>
    /\ EnabledChecks(analysis.checks) = {"rules"}
    /\ ~analysis.useRelatedTests
    /\ analysis.reason = Reason("Docs only", Len(analysis.files), -1)

\* two docs files, one of them a .ts file under docs/, in a 500-line change
C6_Witness ==
  /\ Analyzed
  /\ Len(analysis.files) = 2
  /\ \A f \in SeqSet(analysis.files) : "docs" \in MatchesOf[f]
  /\ \E f \in SeqSet(analysis.files) : "src" \in MatchesOf[f]
  /\ TotalLines = 500
  /\ analysis.reason.plural

\* C7: a completed analysis without covered files disables coverage; unless
\* the diff is all docs, all config, all scripts or all tests it enables
\* rules, typecheck and tests, and the reason is that of the no-covered branch.
C7_NoCoveredFiles ==
  (Completed /\ CoveredCount = 0) =>
    /\ ~IsEnabled(analysis.checks, "coverage")
    /\ (~AllFilesAre("docs") /\ ~AllFilesAre("config")
          /\ ~AllFilesAre("scripts") /\ ~AllFilesAre("tests")) =>
         /\ {"rules", "typecheck", "tests"} \subseteq EnabledChecks(analysis.checks)
         /\ analysis.reason =
              IF Len(analysis.categories.src) > 0
              THEN Reason("not in coverage scope", Len(analysis.categories.src), -1)
              ELSE Reason("No covered code changed", -1, TotalLines)

\* one source file under src/ outside the include patterns (src/z.ts)
C7_Witness ==
  /\ Completed
  /\ Len(analysis.files) = 1
  /\ Len(analysis.categories.src) = 1
  /\ StartsWith(Path(analysis.files[1]), <<"s", "r", "c", "/">>)
  /\ CoveredCount = 0
  /\ config.checks["coverage"]
  /\ analysis.reason.text = "not in coverage scope"

\* what C8 says of a result with covered files
SizeBranchesAsClaimed ==
  IF TotalLines < 200 /\ CoveredCount <= 3
  THEN /\ ~IsEnabled(analysis.checks, "coverage")
       /\ analysis.checks = [config.checks EXCEPT !["coverage"] = FALSE]
       /\ analysis.useRelatedTests
       /\ analysis.reason.text = "Small diff"
  ELSE IF TotalLines < 500 /\ CoveredCount <= 10
  THEN /\ analysis.checks = config.checks
       /\ analysis.useRelatedTests
       /\ analysis.reason.text = "Medium diff"
  ELSE /\ analysis.checks = config.checks
       /\ ~analysis.useRelatedTests
       /\ analysis.relatedFiles = <<>>
       /\ analysis.reason.text = "Large diff"

C9_TestsOnly ==
  (Analyzed /\ AllFilesAre("tests")) =>
    /\ {"rules", "typecheck", "tests"} \subseteq EnabledChecks(analysis.checks)
    /\ ~IsEnabled(analysis.checks, "coverage")
    /\ analysis.useRelatedTests
    /\ analysis.relatedFiles = analysis.files
    /\ analysis.reason.text = "Tests only"

\* test files only, one outside src/, in a change of 500 lines: not eligible
\* for related tests by the earlier rule
C9_Witness ==
  /\ Analyzed /\ AllFilesAre("tests")
  /\ \E f \in SeqSet(analysis.files) : ~StartsWith(Path(f), <<"s", "r", "c", "/">>)
  /\ TotalLines >= 500
  /\ analysis.useRelatedTests

-----------------------------------------------------------------------------
(* Properties of the script discovery, checked under SpecScripts. *)

\* C10: categorizeScript returns no category for a blacklisted name, also
\* when the name matches an exact or prefix pattern of a category.
C10_BlacklistWins ==
  (categorized # NoResult /\ isBlacklisted(ScriptUniverse[categorized.name])) =>
    categorized.category = null

\* a blacklisted name that the lint prefix matches
C10_Witness ==
  /\ categorized # NoResult
  /\ isBlacklisted(ScriptUniverse[categorized.name])
  /\ MatchCategory(toLowerCase(ScriptUniverse[categorized.name]), 1) = "lint"
  /\ categorized.category = null

-----------------------------------------------------------------------------
(* Properties of script discovery, checked under SpecScripts. *)

\* discoverScripts returned a result
Discovered == discovery # NoResult /\ discovery # Raised

ScriptName(id) == ScriptUniverse[id]

\* per name of the universe: blacklisted, the category its name matches, and
\* whether it is one of the exact names of that category; computed once
BlacklistedOf == [id \in ScriptIds |-> isBlacklisted(ScriptName(id))]

MatchedOf == [id \in ScriptIds |-> MatchCategory(toLowerCase(ScriptName(id)), 1)]

ExactOf ==
  [id \in ScriptIds |->
     MatchedOf[id] # null /\ toLowerCase(ScriptName(id)) \in SCRIPT_PATTERNS[MatchedOf[id]].exact]

NameLess == [a \in ScriptIds |-> [b \in ScriptIds |-> StrLess(ScriptName(a), ScriptName(b))]]

\* the declared names that are not blacklisted and match category c
Eligible(c) == {id \in SeqSet(manifest.names) : ~BlacklistedOf[id] /\ MatchedOf[id] = c}

\* every order in which the manifest may declare the same names
Reorderings(names) ==
  {p \in [1..Len(names) -> SeqSet(names)] : \A i, j \in 1..Len(names) : p[i] = p[j] => i = j}

\* C11: a category with an exact-name entry resolves to an exact-name entry,
\* never to a prefix-only one, and the resolved entries are the same for every
\* order of the manifest's entries.
C11_ExactPreferred ==
  (Discovered /\ manifest.state = "ok") =>
    /\ \A c \in CheckCategories :
         (\E id \in Eligible(c) : ExactOf[id]) =>
           /\ discovery.scripts[c] # NullScript
           /\ ExactOf[discovery.scripts[c].name]
           /\ discovery.scripts[c].name \in Eligible(c)
    /\ \A p \in Reorderings(manifest.names) :
         discoverScripts(lockfiles, [manifest EXCEPT !.names = p]).scripts = discovery.scripts

\* a prefix-only entry that sorts before the exact entry of its category, and
\* the category resolved to the exact one
C11_Witness ==
  /\ Discovered
  /\ Len(discovery.allScripts) = 2
  /\ discovery.allScripts[1].category = "build"
  /\ discovery.allScripts[2].category = "build"
  /\ ~ExactOf[discovery.allScripts[1].name]
  /\ ExactOf[discovery.allScripts[2].name]
  /\ discovery.scripts["build"] = discovery.allScripts[2]

\* the lockfile of a package manager
LockfileOf == [bun |-> "bun.lockb", pnpm |-> "pnpm-lock.yaml", yarn |-> "yarn.lock"]

ManagerPriority == <<"bun", "pnpm", "yarn">>

\* C12: the package manager is the first of bun, pnpm, yarn whose lockfile
\* exists, and npm exactly when none of the three lockfiles exists.
C12_ManagerPriority ==
  Discovered =>
    /\ (discovery.packageManager = "npm") <=> (lockfiles \cap Lockfiles = {})
    /\ \A i \in 1..Len(ManagerPriority) :
         (discovery.packageManager = ManagerPriority[i]) <=>
           /\ LockfileOf[ManagerPriority[i]] \in lockfiles
           /\ \A j \in 1..(i - 1) : LockfileOf[ManagerPriority[j]] \notin lockfiles

\* pnpm-lock.yaml and yarn.lock both present, without bun.lockb
C12_Witness ==
  /\ Discovered
  /\ lockfiles = {"pnpm-lock.yaml", "yarn.lock"}
  /\ discovery.packageManager = "pnpm"

\* C13: each category's slot is empty or holds an element of allScripts of
\* that category, and holds one exactly when allScripts has an entry of it.
C13_OneScriptPerCategory ==
  Discovered =>
    \A c \in CheckCategories :
      /\ discovery.scripts[c] # NullScript =>
           /\ discovery.scripts[c] \in SeqSet(discovery.allScripts)
           /\ discovery.scripts[c].category = c
      /\ (discovery.scripts[c] # NullScript) <=>
           (\E k \in 1..Len(discovery.allScripts) : discovery.allScripts[k].category = c)

\* two entries of one category, the slot holding the second of them
C13_Witness ==
  /\ Discovered
  /\ Len(discovery.allScripts) = 2
  /\ discovery.allScripts[1].category = discovery.allScripts[2].category
  /\ discovery.scripts[discovery.allScripts[2].category] = discovery.allScripts[2]

\* C14: discoverScripts never raises; a manifest that is missing, not valid
\* JSON, or parses to a value without scripts map (a non-object value
\* included) gives the empty result with the detected package manager.
C14_NeverRaises ==
  (discovery # NoResult /\ manifest.state # "ok") =>
    /\ discovery # Raised
    /\ discovery = [packageManager |-> discovery.packageManager,
                    scripts |-> [c \in CheckCategories |-> NullScript],
                    allScripts |-> <<>>]

\* C15: allScripts holds exactly the declared entries that are not blacklisted
\* and match a category, in ascending order of name; a blacklisted entry is in
\* no slot either.
C15_AllScriptsExact ==
  (Discovered /\ manifest.state = "ok") =>
    /\ {discovery.allScripts[k].name : k \in 1..Len(discovery.allScripts)}
         = UNION {Eligible(c) : c \in CheckCategories}
    /\ \A k \in 1..Len(discovery.allScripts) :
         /\ discovery.allScripts[k].category = MatchedOf[discovery.allScripts[k].name]
         /\ \A l \in (k + 1)..Len(discovery.allScripts) :
              NameLess[discovery.allScripts[k].name][discovery.allScripts[l].name]
    /\ \A c \in CheckCategories :
         discovery.scripts[c] # NullScript => ~BlacklistedOf[discovery.scripts[c].name]

\* a manifest whose only lint entry is blacklisted: nothing is listed and the
\* lint slot stays empty
C15_Witness ==
  /\ Discovered
  /\ manifest.state = "ok"
  /\ \E k \in 1..Len(manifest.names) :
       BlacklistedOf[manifest.names[k]] /\ MatchedOf[manifest.names[k]] = "lint"
  /\ Eligible("lint") = {}
  /\ discovery.scripts["lint"] = NullScript
  /\ Len(manifest.names) = 2
  /\ Len(discovery.allScripts) = 1

-----------------------------------------------------------------------------
(* Properties of loadFileContent, checked under SpecLoad. *)

\* loadFileContent returned a file
Loaded == loaded # NoResult /\ loaded # NoFile

\* the text t ends with the truncation marker
HasMarker(t) ==
  /\ Len(t) >= Len(TruncationMarker)
  /\ SubSeq(t, Len(t) - Len(TruncationMarker) + 1, Len(t)) = TruncationMarker

BeforeMarker(t) == SubSeq(t, 1, Len(t) - Len(TruncationMarker))

\* C19: loadFileContent truncates exactly when the file has more than maxSize
\* bytes; the content is then the first maxSize bytes of the file followed by
\* the marker, so that what precedes the marker is at most maxSize bytes; a
\* shorter file is returned whole, without marker; the size is always the
\* byte length of the file.
C19_TruncatesToMaxSizeBytes ==
  Loaded =>
    /\ loaded.size = Len(loadEntry.bytes)
    /\ loaded.truncated <=> (Len(loadEntry.bytes) > loadMax)
    /\ loaded.truncated =>
         /\ HasMarker(loaded.content)
         /\ Utf8Encode(BeforeMarker(loaded.content)) = SubSeq(loadEntry.bytes, 1, loadMax)
         /\ Len(Utf8Encode(BeforeMarker(loaded.content))) <= loadMax
    /\ ~loaded.truncated =>
         /\ Utf8Encode(loaded.content) = loadEntry.bytes
         /\ ~HasMarker(loaded.content)

-----------------------------------------------------------------------------
(* Properties of deduplicateContent, checked under SpecDedup. *)

\* C16: deduplicating the deduplicated list gives the same files in the same
\* order.
C16_DedupIdempotent ==
  dedupTwice # NoResult => dedupTwice.files = dedupOnce.files

\* a list that the first call both reorders and shortens, deduplicated twice
C16_Witness ==
  /\ dedupTwice # NoResult
  /\ Len(dedupOnce.files) >= 2
  /\ Len(dedupOnce.files) < Len(dedupFiles)
  /\ dedupOnce.files # SubSeq(dedupFiles, 1, Len(dedupOnce.files))
  /\ \E i, j \in 1..Len(dedupOnce.files) : i # j /\ dedupOnce.files[i].type = dedupOnce.files[j].type

\* the content of a file up to surrounding white space and the form of its
\* line ends: the characters from the first to the last that is no white
\* space, without the carriage returns that a line feed follows
ContentKey(content) ==
  LET solid == {i \in 1..Len(content) : content[i] \notin WhiteSpace}
      first == CHOOSE i \in solid : \A j \in solid : i <= j
      last == CHOOSE i \in solid : \A j \in solid : j <= i
      kept == IF solid = {} THEN {}
              ELSE {i \in first..last : ~(content[i] = "\r" /\ content[i + 1] = "\n")}
      nth[k \in 0..Len(content)] ==
        IF k = 0 THEN 0 ELSE CHOOSE i \in kept : i > nth[k - 1] /\ \A j \in kept : j > nth[k - 1] => i <= j
  IN [k \in 1..Cardinality(kept) |-> content[nth[k]]]

KeyOf == [c \in DedupContents |-> ContentKey(c)]

\* the place of a type in the priority order
Rank(type) == CHOOSE i \in 1..Len(dedupOrder) : dedupOrder[i] = type

-----------------------------------------------------------------------------
(* Properties of discoverConventionFiles, checked under SpecDiscover. *)

RECURSIVE SumSizes(_)
SumSizes(files) == IF Len(files) = 0 THEN 0 ELSE Head(files).size + SumSizes(Tail(files))

\* C18: the recorded sizes of the files discoverConventionFiles returns sum
\* to at most maxCombinedSize.
C18_CombinedSizeWithinBudget ==
  conventions # NoResult => SumSizes(conventions.files) <= finalConfig.maxCombinedSize

\* a returned list that fills the budget, with a readable file left out
C18_Witness ==
  /\ conventions # NoResult
  /\ finalConfig.maxCombinedSize > 0
  /\ SumSizes(conventions.files) = finalConfig.maxCombinedSize
  /\ Len(conventions.files) >= 2
  /\ \E f \in SeqSet(conventions.files) : f.size > finalConfig.maxFileSize
  /\ project.files[2].kind = "file"
  /\ \A f \in SeqSet(conventions.files) : f.path # <<2, 0>>

\* the readable files of the project in the order of the locations, each as
\* loadFileContent gives it
Candidates ==
  (IF loadFileContent(project.files[1], finalConfig.maxFileSize) = NoFile THEN <<>>
   ELSE <<ConventionFile(<<1, 0>>, "claude-md",
            loadFileContent(project.files[1], finalConfig.maxFileSize))>>)
  \o (IF loadFileContent(project.files[2], finalConfig.maxFileSize) = NoFile THEN <<>>
      ELSE <<ConventionFile(<<2, 0>>, "cursorrules",
               loadFileContent(project.files[2], finalConfig.maxFileSize))>>)
  \o DirFiles
  \o (IF loadFileContent(project.files[4], finalConfig.maxFileSize) = NoFile THEN <<>>
      ELSE <<ConventionFile(<<4, 0>>, "claude-settings",
               loadFileContent(project.files[4], finalConfig.maxFileSize))>>)

\* the candidates accepted, from index i on, when a file is accepted exactly
\* when the running total plus its size does not exceed the budget
RECURSIVE AcceptedWhenFitting(_, _, _)
AcceptedWhenFitting(cands, i, total) ==
  IF i > Len(cands) THEN <<>>
  ELSE IF total + cands[i].size <= finalConfig.maxCombinedSize
       THEN <<cands[i]>> \o AcceptedWhenFitting(cands, i + 1, total + cands[i].size)
  ELSE AcceptedWhenFitting(cands, i + 1, total)

\* the same, a file being accepted only if moreover the running total was
\* below the budget when the loop came to the file's location (reached)
RECURSIVE AcceptedWhenOpen(_, _, _, _)
AcceptedWhenOpen(cands, i, total, reached) ==
  IF i > Len(cands) THEN <<>>
  ELSE LET first == i = 1 \/ cands[i].path[1] # cands[i - 1].path[1]
           atLocation == IF first THEN total ELSE reached
       IN IF atLocation < finalConfig.maxCombinedSize
             /\ total + cands[i].size <= finalConfig.maxCombinedSize
          THEN <<cands[i]>> \o AcceptedWhenOpen(cands, i + 1, total + cands[i].size, atLocation)
          ELSE AcceptedWhenOpen(cands, i + 1, total, atLocation)

\* the accepted files are in the order of their locations and entries
InLocationOrder ==
  \A i, j \in 1..Len(discoveredFiles) :
    i < j => \/ discoveredFiles[i].path[1] < discoveredFiles[j].path[1]
             \/ /\ discoveredFiles[i].path[1] = discoveredFiles[j].path[1]
                /\ discoveredFiles[i].path[2] < discoveredFiles[j].path[2]

\* C20 as stated: files are accumulated in location order, a file being
\* accepted exactly when it is readable and the running total plus its size
\* does not exceed maxCombinedSize.
C20_AcceptedExactlyWhenFitting ==
  ~InLoop =>
    /\ InLocationOrder
    /\ discoveredFiles = AcceptedWhenFitting(Candidates, 1, 0)

\* C20: files are accumulated in location order; a file is accepted exactly
\* when it is readable, the running total was below maxCombinedSize when the
\* loop came to its location, and the running total plus its size does not
\* exceed maxCombinedSize; no location reached with the budget used up
\* contributes a file.
C20_AcceptedWhenFittingAndOpen ==
  /\ totalSize = SumSizes(discoveredFiles)
  /\ ~InLoop =>
       /\ InLocationOrder
       /\ discoveredFiles = AcceptedWhenOpen(Candidates, 1, 0, 0)
       /\ \A i \in 1..Len(discoveredFiles) :
            SumSizes(SelectSeq(discoveredFiles,
                               LAMBDA g : g.path[1] < discoveredFiles[i].path[1]))
              < finalConfig.maxCombinedSize

\* CLAUDE.md accepted, .cursorrules too large for what is left, a smaller
\* rules file accepted and filling the budget, an empty settings file left out
C20_Witness ==
  /\ ~InLoop
  /\ Len(discoveredFiles) = 2
  /\ discoveredFiles[1].path = <<1, 0>>
  /\ discoveredFiles[2].path[1] = 3
  /\ project.files[2].kind = "file"
  /\ Len(project.files[2].bytes) > discoveredFiles[2].size
  /\ totalSize = finalConfig.maxCombinedSize
  /\ project.files[4] = [kind |-> "file", bytes |-> <<>>]

-----------------------------------------------------------------------------
(* Properties of the configuration loading, checked under SpecConfig. *)

\* the configuration file names whose file exists and holds well-formed JSON
WellFormed ==
  {i \in 1..Len(CONFIG_FILE_NAMES) :
     configDisk[i].kind = "file" /\ JSONParse(configDisk[i].text) # SyntaxError}

\* the bulletproof key of package.json, when package.json has one that is set
ManifestBlock ==
  LET pkg == configDisk[PackageJson]
  IN IF pkg.kind = "file" /\ IsObject(JSONParse(pkg.text))
        /\ "bulletproof" \in DOMAIN JSONParse(pkg.text).obj
        /\ JSONParse(pkg.text).obj["bulletproof"] # JsNull
     THEN JSONParse(pkg.text).obj["bulletproof"]
     ELSE JsNull

\* C21: loadConfigFile returns the content of the first configuration file,
\* in the order of CONFIG_FILE_NAMES, that exists and is not malformed; when
\* there is none it returns the bulletproof key of package.json, and null when
\* that is missing too; loadConfig then returns the built-in defaults, and
\* loadConfig raises for no combination of missing or malformed files.
C21_FirstWellFormedFileWins ==
  /\ fileConfig # NoResult =>
       /\ WellFormed # {} =>
            \E i \in WellFormed :
              /\ \A j \in WellFormed : i <= j
              /\ fileConfig.value = JSONParse(configDisk[i].text)
       /\ WellFormed = {} => fileConfig.value = ManifestBlock
  /\ loadedConfig # NoResult =>
       /\ ~IsRaised(loadedConfig.value)
       /\ (WellFormed = {} /\ ManifestBlock = JsNull) =>
            loadedConfig.value = DEFAULT_CONFIG

\* loadConfigFile skipped a malformed file and a directory and returned the
\* content of the third name, although the fourth and package.json hold
\* configurations too
C21_Witness ==
  /\ fileConfig # NoResult
  /\ configDisk[1] = [kind |-> "file", text |-> "module.exports = {}"]
  /\ configDisk[2].kind = "directory"
  /\ configDisk[3] = [kind |-> "file", text |-> "{\"model\":\"m1\"}"]
  /\ configDisk[4] = [kind |-> "file", text |-> "{\"checks\":null,\"coverageScope\":null}"]
  /\ ManifestBlock # JsNull
  /\ fileConfig.value = Obj("model" :> Str("m1"))

-----------------------------------------------------------------------------
(* Properties of mergeConfig, checked under SpecMerge. *)

\* the object has the key
Has(o, key) == IsObject(o) /\ key \in DOMAIN o.obj

\* the value the object holds under the key, undefined when it has none
Field(o, key) == IF Has(o, key) THEN o.obj[key] ELSE undefined

ScalarFields == {"model", "maxTurns", "rulesFile", "systemPrompt", "additionalInstructions"}

KeyedFields == {"checks", "commands"}

\* the field of the result is the partial's when the partial has it, else the defaults'
ScalarMerged(key) ==
  Field(merged.value, key) =
    IF Has(mergePartial, key) THEN Field(mergePartial, key) ELSE Field(mergeDefaults, key)

\* each key of the field is the partial's when the partial sets it, else the defaults'
KeyedMerged(field) ==
  \A key \in DOMAIN Props(Field(merged.value, field))
             \cup DOMAIN Props(Field(mergePartial, field))
             \cup DOMAIN Props(Field(mergeDefaults, field)) :
    Field(Field(merged.value, field), key) =
      IF Has(Field(mergePartial, field), key)
      THEN Field(Field(mergePartial, field), key)
      ELSE Field(Field(mergeDefaults, field), key)

\* C22: for every partial configuration and every defaults object, each scalar
\* field of mergeConfig's result (model, maxTurns, rulesFile, systemPrompt,
\* additionalInstructions) is the partial's value when the partial has it and
\* the defaults' value otherwise, and each key of checks and commands is the
\* partial's value when the partial sets it and the defaults' value otherwise.
C22_MergeTakesPartialElseDefault ==
  merged # NoResult =>
    /\ \A key \in ScalarFields : ScalarMerged(key)
    /\ \A field \in KeyedFields : KeyedMerged(field)

-----------------------------------------------------------------------------
(* Properties of the coverage patterns, checked under SpecPattern. *)

IsTagged(pattern) == StartsWith(pattern, REGEX_TAG)

\* the glob, from its i-th character on, matches the whole of the path from
\* its j-th character on: "**" stands for any run of characters, "*" for any
\* run without "/", every other character for itself
RECURSIVE GlobAccepts(_, _, _, _)
GlobAccepts(glob, i, path, j) ==
  IF i > Len(glob) THEN j = Len(path) + 1
  ELSE IF i < Len(glob) /\ glob[i] = "*" /\ glob[i + 1] = "*"
       THEN \E k \in j..(Len(path) + 1) : GlobAccepts(glob, i + 2, path, k)
  ELSE IF glob[i] = "*"
       THEN \E k \in j..(Len(path) + 1) :
              /\ \A m \in j..(k - 1) : path[m] # "/"
              /\ GlobAccepts(glob, i + 1, path, k)
  ELSE j <= Len(path) /\ path[j] = glob[i] /\ GlobAccepts(glob, i + 1, path, j + 1)

\* the regular expression, as written, matches somewhere in the path
TaggedAccepts(pattern, path) ==
  LET re == RegExpCompile(SubSeq(pattern, Len(REGEX_TAG) + 1, Len(pattern)))
  IN re.ok /\ RegExpTest(re.atoms, path)

\* C23: a glob coverage pattern matches a path only as a whole; "*" matches
\* any run of characters without "/", "**" any run of characters, and every
\* other character of the pattern, regex metacharacters included, matches only
\* itself; a pattern tagged as regex is used as written.
C23_GlobMatchesAsClaimed ==
  patternMatched # NoResult =>
    patternMatched.value =
      IF IsTagged(coveragePattern)
      THEN (IF TaggedAccepts(coveragePattern, testedPath) THEN "true"
            ELSE IF RegExpCompile(patternToRegex(coveragePattern)).ok THEN "false" ELSE "throw")
      ELSE (IF GlobAccepts(coveragePattern, 1, testedPath, 1) THEN "true" ELSE "false")

-----------------------------------------------------------------------------
(* Properties of repeated and configured diff analysis, checked under        *)
(* SpecDiffTwice and SpecDiff.                                               *)

C25_RelatedModeAgreesWithFiles ==
  Analyzed => (analysis.useRelatedTests <=> analysis.relatedFiles # <<>>)

\* C26: analyzeDiff only narrows the configured check set: a check that is
\* disabled in config.checks is disabled in the returned checks on every
\* branch of the decision tree.
C26_DisabledStaysDisabled ==
  Analyzed =>
    \A c \in CheckNames :
      ~IsEnabled(config.checks, c) => ~IsEnabled(analysis.checks, c)

\* C27: getDiffStats returns the insertion and deletion counts git reports,
\* a side git omits from its summary counting as 0 and the other side keeping
\* its count, so the total analyzeDiff compares with 200 and 500 is the
\* number of changed lines.
C27_StatsAreChangedLines ==
  (Analyzed /\ gitOk.stats /\ gitFiles # {}) =>
    /\ analysis.additions = gitStat.ins
    /\ analysis.deletions = gitStat.del
    /\ TotalLines = gitStat.ins + gitStat.del

-----------------------------------------------------------------------------
(* Properties of GuardianRunner.run, checked under SpecRun. *)

\* the checks of this run succeeded: the agent announced it, or the final
\* verification passed after the agent did not
ChecksSucceeded ==
  runOutcomes.agent = "passed" \/ runOutcomes.verify

\* the stages at which the outcome of the checks is known
ChecksDecided == runPc \in {"summary", "commit", "push", "failure", "return", "done"}

PushAttempted == \E i \in 1..Len(runEffects) : runEffects[i] = "push"

\* C28: in GuardianRunner.run the push happens only after the checks have
\* succeeded and after the auto-fix commit step, and never in hook mode or
\* when skipPush is set; every returned result with pushed = true has
\* success = true, fixesCommitted is true only in a run whose checks
\* succeeded, and a failed push yields success = false.
C28_PushOnlyAfterSuccessAndCommit ==
  /\ \A i \in 1..Len(runEffects) :
       runEffects[i] = "push" =>
         /\ ChecksDecided /\ ChecksSucceeded /\ runLocals.success
         /\ \E j \in 1..(i - 1) : runEffects[j] = "commit"
         /\ ~runOptions.hookMode
         /\ ~runOptions.skipPush
  /\ runResult # NoResult =>
       /\ runResult.pushed => runResult.success
       /\ runResult.pushed => PushAttempted
       /\ runResult.fixesCommitted => ChecksSucceeded
       /\ (PushAttempted /\ ~runOutcomes.push) => ~runResult.success

\* a run whose agent stopped short, whose final verification passed, which
\* committed fixes and then pushed them
C28_Witness ==
  /\ runResult # NoResult
  /\ runOutcomes.agent = "stopped"
  /\ runEffects = <<"commit", "push">>
  /\ runResult.fixesCommitted
  /\ runResult.pushed
  /\ runResult.success

\* C29: a GuardianResult with success = true carries no error: error is set
\* only in results whose success is false, also when the agent run failed and
\* the final verification then passed.
C29_SuccessCarriesNoError ==
  runResult # NoResult =>
    (runResult.success => runResult.error = undefined)

-----------------------------------------------------------------------------
(* Properties of the section tracking, checked under SpecSections. *)

\* the position of the section in the active list, counted from 0, -1 when
\* the section is not active
ActiveIndex(state, sectionId) ==
  IF \E i \in 1..Len(state.sections) : state.sections[i] = sectionId
  THEN (CHOOSE i \in 1..Len(state.sections) : state.sections[i] = sectionId) - 1
  ELSE -1

\* the step is a startSection call for a section that is not active, or that
\* is at or before the current one
StartsNoNewSection ==
  /\ lastCall'.op = "startSection"
  /\ \/ ActiveIndex(sectionsState, lastCall'.id) = -1
     \/ ActiveIndex(sectionsState, lastCall'.id) <= sectionsState.currentIndex

\* C30: across any sequence of startSection, updateSectionStatus and
\* markAllPassed calls on a SectionsState, currentIndex never decreases and
\* stays between -1 and the number of active sections minus one; startSection
\* for a section at or before the current one, or for a section that is not
\* active, returns false and changes neither currentIndex nor any status.
C30_SectionsOnlyMoveForward ==
  /\ [](/\ sectionsState.currentIndex >= -1
        /\ sectionsState.currentIndex <= Len(sectionsState.sections) - 1)
  /\ [][/\ sectionsState'.currentIndex >= sectionsState.currentIndex
        /\ StartsNoNewSection =>
             /\ ~lastCall'.returned
             /\ sectionsState'.currentIndex = sectionsState.currentIndex
             /\ sectionsState'.statuses = sectionsState.statuses]_vars

\* startSection was refused for the first of three active sections while the
\* third is the current one and holds a status set since
C30_Witness ==
  /\ Len(sectionsState.sections) = 3
  /\ sectionsState.currentIndex = 2
  /\ sectionsState.statuses = <<"pending", "passed", "failed">>
  /\ lastCall = [op |-> "startSection", id |-> sectionsState.sections[1], returned |-> FALSE]

====
